---- MODULE Spec2Model ----
(***************************************************************************)
(* Model of the marketplace API clients of the vice repository:            *)
(*   - buff_market/client.rs : BuffMarketClient (get_buy_orders,            *)
(*     get_market_listings, get_all_market_listings)                        *)
(*   - dmarket/client.rs and dmarket/endpoints/*.rs : DMarket endpoints     *)
(*   - csfloat/client.rs : CSFloatClient::get / post                        *)
(* A call is a small state machine whose steps are the await points of the  *)
(* handler (send, text, json); the paginated fetch-all loop drives the      *)
(* get_market_listings call once per page.                                  *)
(***************************************************************************)
EXTENDS Integers, Sequences, FiniteSets, TLC

VARIABLES
    cpc,            \* position of the endpoint call: idle, send, text, json, done
    endpoint,       \* the endpoint being called
    page_num,       \* the page_num argument of the call (Buff list endpoints)
    wire,           \* the HTTP response as delivered by the transport
    captured,       \* the body text the handler holds after response.text()
    events,         \* what the call has done so far, in order
    cresult,        \* the Result the call returned
    fpc,            \* position of get_all_market_listings: idle, top, call, sleep, done
    current_page,   \* get_all_market_listings: current_page
    total_pages,    \* get_all_market_listings: total_pages
    all_items,      \* get_all_market_listings: all_items
    requests,       \* the page numbers the loop has requested, in order
    pages,          \* the parsed page responses the loop has received, in order
    fresult,        \* the Result get_all_market_listings returned
    timeline,       \* what get_all_market_listings did, in order: request,
                    \* response, sleep, log
    env,            \* environment variables and constructor arguments
    clients,        \* per marketplace: the Result of the client's constructor
    signed,         \* the last generate_signature call: its arguments and result
    sent,           \* the HTTP requests the endpoint call has sent, in order
    suspended       \* the locals of a second call on the same clients, one
                    \* that waits at an await while the first is polled

vars == <<cpc, endpoint, page_num, wire, captured, events, cresult,
          fpc, current_page, total_pages, all_items, requests, pages, fresult,
          timeline, env, clients, signed, sent,
          suspended>>

callVars == <<cpc, endpoint, page_num, wire, captured, events, cresult, signed, sent>>
clientVars == <<env, clients>>
loopVars == <<fpc, current_page, total_pages, all_items, requests, pages, fresult,
              timeline>>

----------------------------------------------------------------------------
(* Bounds of the model *)

\* the most page requests one run of the fetch-all loop may issue in the model
MaxRequests == 4
\* the largest total_page a page response reports
MaxTotalPage == 2

----------------------------------------------------------------------------
(* Option and Result *)

None == [some |-> FALSE]
Some(x) == [some |-> TRUE, val |-> x]

Ok(x) == [ok |-> TRUE, val |-> x]
Err(e) == [ok |-> FALSE, err |-> e]

RECURSIVE Concat(_)
Concat(ss) == IF ss = <<>> THEN <<>> ELSE Head(ss) \o Concat(Tail(ss))

----------------------------------------------------------------------------
(* JSON values and body texts.  A body text is either text that is not     *)
(* JSON, or the serialisation of a JSON value.                             *)

JStr(x) == [t |-> "str", s |-> x]
JNum(x) == [t |-> "num", n |-> x]
JBool(x) == [t |-> "bool", b |-> x]
JNull == [t |-> "null"]
JArr(x) == [t |-> "arr", a |-> x]
JObj(x) == [t |-> "obj", o |-> x]

\* what a JSON value holds
Payload(j) ==
    CASE j.t = "str" -> j.s
      [] j.t = "num" -> j.n
      [] j.t = "bool" -> j.b
      [] j.t = "arr" -> j.a
      [] j.t = "obj" -> j.o
      [] OTHER -> "null"

RawText(x) == [kind |-> "raw", raw |-> x]
JsonText(j) == [kind |-> "json", json |-> j]

\* serde_json::Error, by its category (Error::classify): the text is not
\* JSON, or it is JSON that does not fit the type. It holds a message and a
\* position besides, and no copy of the input text.
SyntaxDiag == [category |-> "syntax"]
DataDiag == [category |-> "data"]

HasKey(j, k) == k \in DOMAIN j.o
\* an Option<T> field: absent or null is None
IsAbsent(j, k) == ~HasKey(j, k) \/ j.o[k].t = "null"

\* object j holds the required field f = <<key, type>> with that type
FieldOk(j, f) == HasKey(j, f[1]) /\ (f[2] = "any" \/ j.o[f[1]].t = f[2])

\* variant with #[serde(deny_unknown_fields)]: a key the struct does not name
\* is an error
DecodeStruct_DenyUnknown(j, schema) ==
    IF /\ j.t = "obj"
       /\ \A i \in 1..Len(schema) : FieldOk(j, schema[i])
       /\ DOMAIN j.o \subseteq {schema[i][1] : i \in 1..Len(schema)}
    THEN Ok([k \in {schema[i][1] : i \in 1..Len(schema)} |-> Payload(j.o[k])])
    ELSE Err(DataDiag)

\* serde's derived Deserialize for a struct of required fields (schema: a
\* sequence of <<key, type>>): the value must be an object holding every
\* required field with its type; keys the struct does not name are ignored.
DecodeStruct(j, schema) ==
    IF j.t = "obj" /\ \A i \in 1..Len(schema) : FieldOk(j, schema[i])
    THEN Ok([k \in {schema[i][1] : i \in 1..Len(schema)} |-> Payload(j.o[k])])
    ELSE Err(DataDiag)

----------------------------------------------------------------------------
(* buff_market/models.rs *)

MarketGoodsItemSchema ==
    << <<"appid", "num">>, <<"id", "num">>, <<"name", "str">>,
       <<"market_hash_name", "str">>, <<"sell_min_price", "str">>,
       <<"icon_url", "str">> >>

\* MarketGoodsItem: JSON key "id" is the field goods_internal_id
DecodeMarketGoodsItem(j) ==
    IF DecodeStruct(j, MarketGoodsItemSchema).ok
    THEN Ok([appid |-> j.o.appid.n, goods_internal_id |-> j.o.id.n,
             name |-> j.o.name.s, market_hash_name |-> j.o.market_hash_name.s,
             sell_min_price |-> j.o.sell_min_price.s, icon_url |-> j.o.icon_url.s])
    ELSE Err(DataDiag)

ItemSchema ==
    << <<"app_id", "num">>, <<"bookmarked", "bool">>, <<"buy_num", "num">>,
       <<"can_bargain", "bool">>, <<"can_search_intent", "bool">>,
       <<"created_at", "num">>, <<"goods_id", "num">>, <<"id", "str">>,
       <<"updated_at", "num">>, <<"user_id", "num">>, <<"price", "str">>,
       <<"state", "num">>, <<"supported_pay_method", "num">> >>

DecodeItem(j) == DecodeStruct(j, ItemSchema)

PageDataSchema ==
    << <<"items", "arr">>, <<"page_num", "num">>, <<"page_size", "num">>,
       <<"total_count", "num">>, <<"total_page", "num">> >>

\* one element of data.items: Item for get_buy_orders, MarketGoodsItem for
\* get_market_listings
DecodeOneItem(j, e) ==
    IF e = "BuffMarketClient::get_buy_orders"
    THEN DecodeItem(j) ELSE DecodeMarketGoodsItem(j)

\* Vec<T>: every element decodes, in order, or the whole decode fails
DecodeItems(s, e) ==
    IF \A i \in 1..Len(s) : DecodeOneItem(s[i], e).ok
    THEN Ok([i \in 1..Len(s) |-> DecodeOneItem(s[i], e).val])
    ELSE Err(DataDiag)

\* GoodsBuyOrderData / MarketGoodsData of endpoint e
DecodePageData(j, e) ==
    IF DecodeStruct(j, PageDataSchema).ok /\ DecodeItems(j.o.items.a, e).ok
    THEN Ok([items |-> DecodeItems(j.o.items.a, e).val,
             page_num |-> j.o.page_num.n, page_size |-> j.o.page_size.n,
             total_count |-> j.o.total_count.n, total_page |-> j.o.total_page.n])
    ELSE Err(DataDiag)

\* the JSON value fits GoodsBuyOrderResponse / MarketGoodsResponse: code is a
\* required String; data and msg are Option fields (absent or null is None)
EnvelopeShape(j, e) ==
    /\ j.t = "obj"
    /\ FieldOk(j, <<"code", "str">>)
    /\ IsAbsent(j, "data") \/ DecodePageData(j.o.data, e).ok
    /\ IsAbsent(j, "msg") \/ j.o.msg.t = "str"

\* serde_json::from_str::<GoodsBuyOrderResponse / MarketGoodsResponse>(&body)
DecodeEnvelope(text, e) ==
    IF text.kind # "json" THEN Err(SyntaxDiag)
    ELSE IF ~EnvelopeShape(text.json, e) THEN Err(DataDiag)
    ELSE Ok([code |-> text.json.o.code.s,
             data |-> IF IsAbsent(text.json, "data") THEN None
                      ELSE Some(DecodePageData(text.json.o.data, e).val),
             msg |-> IF IsAbsent(text.json, "msg") THEN None
                     ELSE Some(text.json.o.msg.s)])

----------------------------------------------------------------------------
(* Strings.  A string whose characters matter (method, path, body,          *)
(* timestamp) is a sequence of characters.  A credential is described by    *)
(* its length and by whether all its bytes may appear in a header value.    *)

\* char::to_uppercase, for the lower-case letters the methods drawn below hold
ToUpper(c) ==
    CASE c = "g" -> "G" [] c = "e" -> "E" [] c = "t" -> "T"
      [] c = "p" -> "P" [] c = "o" -> "O" [] c = "s" -> "S"
      [] OTHER -> c

\* str::to_uppercase
to_uppercase(str) == [i \in 1..Len(str) |-> ToUpper(str[i])]

\* str::starts_with('/')
starts_with_slash(str) == Len(str) > 0 /\ str[1] = "/"

Credential(n, c) == [len |-> n, clean |-> c]

\* HeaderValue::from_str / str::parse::<HeaderValue>: fails on a byte that may
\* not appear in a header value (a control character such as a line feed)
HeaderValueOk(cred) == cred.clean

----------------------------------------------------------------------------
(* dmarket/client.rs: DMarketClient::new and generate_signature *)

MinPrivateKeyChars == 32
MinPublicKeyChars == 32
SeedBytes == 32
SeedAndPublicBytes == 64

\* The DMARKET_PRIVATE_KEY string: len characters, all hex digits or not.
\* When it is hex it encodes len / 2 bytes, of which the first SeedBytes all
\* have the value head and the later ones all have the value tail.
PrivateKeyString(n, h, a, b) == [len |-> n, hex |-> h, head |-> a, tail |-> b]

\* hex::decode: fails on an odd length or a character that is no hex digit
HexDecode(k) ==
    IF k.hex /\ k.len % 2 = 0
    THEN Ok([len |-> k.len \div 2, head |-> k.head, tail |-> k.tail])
    ELSE Err([kind |-> "FromHexError"])

\* variant that takes the last 32 bytes of the key
SeedOf_LastBytes(bytes) == [len |-> SeedBytes, head |-> bytes.tail, tail |-> bytes.tail]

\* &private_bytes[0..32] as [u8; 32]
SeedOf(bytes) == [len |-> SeedBytes, head |-> bytes.head, tail |-> bytes.head]

EnvError == [kind |-> "EnvError"]
\* reqwest::Client::builder()..build()? failed: the reqwest::Error converted
\* by #[from]
BuilderError(c) ==
    [kind |-> IF c = "dmarket" THEN "RequestError" ELSE "HttpError"]
\* the thread unwinds with message m: the call returns neither Ok nor Err
Panic(m) == [ok |-> FALSE, panic |-> m]
\* DMarketError::ApiError(String) / CSFloatError::ApiError(String) returned by
\* the constructors
ConfigError(m) == [kind |-> "ApiError", message |-> [fmt |-> m]]

\* variant of the constructor without the match on the decoded length
DMarketNew_AnyLength(e) ==
    IF ~e.DMARKET_PRIVATE_KEY.some \/ ~e.DMARKET_PUBLIC_KEY.some
    THEN Err(EnvError)
    ELSE IF e.DMARKET_PRIVATE_KEY.val.len < MinPrivateKeyChars
    THEN Err(ConfigError("Private key is too short"))
    ELSE IF e.DMARKET_PUBLIC_KEY.val.len < MinPublicKeyChars
    THEN Err(ConfigError("Public key is too short"))
    ELSE IF ~HexDecode(e.DMARKET_PRIVATE_KEY.val).ok
    THEN Err([kind |-> "FromHexError"])
    ELSE IF ~e.http_client_builds
    THEN Err(BuilderError("dmarket"))
    ELSE Ok([signing_key |-> SeedOf(HexDecode(e.DMARKET_PRIVATE_KEY.val).val),
             public_key |-> e.DMARKET_PUBLIC_KEY.val])

\* DMarketClient::new, reading the environment e
DMarketNew(e) ==
    IF ~e.DMARKET_PRIVATE_KEY.some \/ ~e.DMARKET_PUBLIC_KEY.some
    THEN Err(EnvError)
    ELSE IF e.DMARKET_PRIVATE_KEY.val.len < MinPrivateKeyChars
    THEN Err(ConfigError("Private key is too short"))
    ELSE IF e.DMARKET_PUBLIC_KEY.val.len < MinPublicKeyChars
    THEN Err(ConfigError("Public key is too short"))
    ELSE IF ~HexDecode(e.DMARKET_PRIVATE_KEY.val).ok
    THEN Err([kind |-> "FromHexError"])
    ELSE IF HexDecode(e.DMARKET_PRIVATE_KEY.val).val.len
                \notin {SeedBytes, SeedAndPublicBytes}
    THEN Err(ConfigError("Invalid private key length: {}. Expected 32 or 64 bytes"))
    ELSE IF ~e.http_client_builds
    THEN Err(BuilderError("dmarket"))
    ELSE Ok([signing_key |-> SeedOf(HexDecode(e.DMARKET_PRIVATE_KEY.val).val),
             public_key |-> e.DMARKET_PUBLIC_KEY.val])

\* variant in the order of the HMAC scheme: timestamp first
SignedMessage_TimestampFirst(timestamp, method, path, body) ==
    timestamp \o to_uppercase(method)
        \o (IF ~starts_with_slash(path) THEN <<"/">> \o path ELSE path)
        \o body

\* variant that leaves the body out of the signed message
SignedMessage_WithoutBody(timestamp, method, path, body) ==
    to_uppercase(method)
        \o (IF ~starts_with_slash(path) THEN <<"/">> \o path ELSE path)
        \o timestamp

\* the message generate_signature signs
SignedMessage(timestamp, method, path, body) ==
    to_uppercase(method)
        \o (IF ~starts_with_slash(path) THEN <<"/">> \o path ELSE path)
        \o body \o timestamp

\* SigningKey::sign: Ed25519 signatures are deterministic; distinct keys or
\* messages are taken to give distinct signatures
Ed25519Sign(key, message) == [key |-> key, message |-> message]

\* DMarketClient::generate_signature: "dmar ed25519 " followed by the
\* signature in hex
generate_signature(client, timestamp, method, path, body) ==
    Ok([prefix |-> "dmar ed25519 ",
        hex |-> Ed25519Sign(client.signing_key,
                            SignedMessage(timestamp, method, path, body))])

----------------------------------------------------------------------------
(* csfloat/client.rs: CSFloatClient::new; buff_market/client.rs:             *)
(* BuffMarketClient::new                                                     *)

CSFloatNew(e) ==
    IF ~e.CSFLOAT_API_KEY.some THEN Err([kind |-> "EnvVarError"])
    ELSE IF e.CSFLOAT_API_KEY.val.len = 0
    THEN Err(ConfigError("API key cannot be empty"))
    ELSE IF ~e.http_client_builds
    THEN Err(BuilderError("csfloat"))
    ELSE Ok([api_key |-> e.CSFLOAT_API_KEY.val])

\* BuffMarketClient::new(session_cookie, csrf_token) keeps its arguments;
\* Client::builder()..build().unwrap() panics when the builder fails
BuffNew(e) ==
    IF ~e.http_client_builds
    THEN Panic("called Result::unwrap() on an Err value")
    ELSE Ok([session_cookie |-> e.session_cookie, csrf_token |-> e.csrf_token])

ClientNames == {"dmarket", "csfloat", "buff"}

New(c, e) ==
    CASE c = "dmarket" -> DMarketNew(e)
      [] c = "csfloat" -> CSFloatNew(e)
      [] OTHER -> BuffNew(e)

----------------------------------------------------------------------------
(* The endpoints, grouped by how the handler treats the response *)

\* dmarket/client.rs: success branch is response.json::<T>()
DMarketClientJsonEndpoints ==
    {"DMarketClient::get_user_profile", "DMarketClient::create_sell_offer",
     "DMarketClient::buy_offer", "DMarketClient::import_items",
     "DMarketClient::export_items", "DMarketClient::cancel_sell_offer",
     "DMarketClient::update_offer_price", "DMarketClient::get_user_sell_offers",
     "DMarketClient::get_market_item_details", "DMarketClient::create_target",
     "DMarketClient::get_targets", "DMarketClient::delete_targets"}

\* dmarket/client.rs: status check, then response.text(), then serde_json::from_str
DMarketClientTextEndpoints ==
    {"DMarketClient::get_market_items", "DMarketClient::search_market_items",
     "DMarketClient::get_inventory", "DMarketClient::get_games"}

\* dmarket/endpoints/*.rs: success branch is response.json::<T>()
HandlerJsonEndpoints ==
    {"AccountHandler::get_user_profile", "ExchangeHandler::get_market_item_details",
     "TargetHandler::create_target", "TargetHandler::get_targets",
     "TargetHandler::delete_targets", "TradingHandler::create_sell_offer",
     "TradingHandler::buy_offer", "TradingHandler::import_items",
     "TradingHandler::export_items", "TradingHandler::cancel_sell_offer",
     "TradingHandler::update_offer_price", "TradingHandler::get_user_sell_offers"}

\* dmarket/endpoints/*.rs: response.text(), then serde_json::from_str
HandlerTextEndpoints ==
    {"ExchangeHandler::get_market_items", "ExchangeHandler::search_market_items",
     "ExchangeHandler::get_games", "InventoryHandler::get_inventory",
     "AccountHandler::get_account_balance"}

\* get_user_profile_raw: response.text(), status check, the text is the result
RawEndpoints ==
    {"DMarketClient::get_user_profile_raw", "AccountHandler::get_user_profile_raw"}

\* DMarketClient::get_account_balance: response.text(), serde_json::from_str,
\* and only then the status check
ParseFirstEndpoints == {"DMarketClient::get_account_balance"}

\* csfloat/endpoints/listings.rs, through CSFloatClient::get and ::post
CSFloatEndpoints ==
    {"ListingsHandler::get_listings", "ListingsHandler::get_listing",
     "ListingsHandler::create_listing"}

\* buff_market/client.rs: the envelope endpoints
BuffEndpoints ==
    {"BuffMarketClient::get_buy_orders", "BuffMarketClient::get_market_listings"}

DMarketEndpoints ==
    DMarketClientJsonEndpoints \cup DMarketClientTextEndpoints
    \cup HandlerJsonEndpoints \cup HandlerTextEndpoints
    \cup RawEndpoints \cup ParseFirstEndpoints

Endpoints == DMarketEndpoints \cup CSFloatEndpoints \cup BuffEndpoints

ClientOf(e) ==
    IF e \in DMarketEndpoints THEN "dmarket"
    ELSE IF e \in CSFloatEndpoints THEN "csfloat"
    ELSE "buff"

Style(e) ==
    IF e \in DMarketClientJsonEndpoints \cup HandlerJsonEndpoints THEN "json"
    ELSE IF e \in RawEndpoints THEN "raw"
    ELSE IF e \in ParseFirstEndpoints THEN "parse_first"
    ELSE IF e \in BuffEndpoints THEN "buff"
    ELSE "text"

BalanceEndpoints ==
    {"DMarketClient::get_account_balance", "AccountHandler::get_account_balance"}

----------------------------------------------------------------------------
(* The request each handler builds before it awaits send() *)

GET == <<"G", "E", "T">>
POST == <<"P", "O", "S", "T">>
DELETE == <<"D", "E", "L", "E", "T", "E">>

DeleteEndpoints == {"DMarketClient::delete_targets", "TargetHandler::delete_targets"}

PostEndpoints ==
    {"DMarketClient::create_sell_offer", "DMarketClient::buy_offer",
     "DMarketClient::import_items", "DMarketClient::export_items",
     "DMarketClient::cancel_sell_offer", "DMarketClient::update_offer_price",
     "DMarketClient::create_target", "TargetHandler::create_target",
     "TradingHandler::create_sell_offer", "TradingHandler::buy_offer",
     "TradingHandler::import_items", "TradingHandler::export_items",
     "TradingHandler::cancel_sell_offer", "TradingHandler::update_offer_price",
     "ListingsHandler::create_listing"}

\* let method = "GET" | "POST" | "DELETE": the method the handler signs
MethodLiteral(e) ==
    IF e \in DeleteEndpoints THEN DELETE
    ELSE IF e \in PostEndpoints THEN POST
    ELSE GET

\* the request builder the handler calls: .get(&url), .post(&url), .delete(&url)
Verb(e) ==
    IF e \in DeleteEndpoints THEN DELETE
    ELSE IF e \in PostEndpoints THEN POST
    ELSE GET

\* urlencoding::encode: a space becomes %20 (letters are kept)
UrlEncode(str) == [i \in 1..Len(str) |-> IF str[i] = " " THEN "%20" ELSE str[i]]

\* Url::parse, applied by reqwest to the &str it is given: in the query a
\* space is percent-encoded; letters and existing %-escapes are kept
UrlParse(str) == [i \in 1..Len(str) |-> IF str[i] = " " THEN "%20" ELSE str[i]]

\* the endpoint whose path holds the caller's search text as it was given
RawQueryEndpoints == {"DMarketClient::search_market_items"}

\* the endpoints whose path holds urlencoding::encode of the caller's text
EncodedQueryEndpoints ==
    {"ExchangeHandler::search_market_items", "ExchangeHandler::get_market_items"}

\* let path = ...: "/" and the rest of the endpoint's literal (one symbol named
\* after the endpoint); where the endpoint has a search text: "title=", the
\* text, and the game id after it
Path(e, query) ==
    IF e \in RawQueryEndpoints
    THEN <<"/", e, "title=">> \o query \o <<"&gameId=">>
    ELSE IF e \in EncodedQueryEndpoints
    THEN <<"/", e, "title=">> \o UrlEncode(query) \o <<"&gameId=">>
    ELSE <<"/", e>>

\* let body = "" for the bodyless requests, serde_json::to_string(request)?
\* for the others
Body(e) == IF e \in PostEndpoints \cup DeleteEndpoints THEN <<"{", "}">> ELSE <<>>

HeaderError(k) == [kind |-> k]
InvalidInput(m) == [kind |-> "InvalidInput", message |-> m]

\* variant that leaves out a header whose value does not encode
create_headers_SkipsInvalid(client, timestamp, signature) ==
    IF HeaderValueOk(client.public_key)
    THEN Ok([X_Api_Key |-> client.public_key,
             X_Request_Sign |-> signature,
             X_Sign_Date |-> timestamp])
    ELSE Ok([X_Request_Sign |-> signature, X_Sign_Date |-> timestamp])

\* DMarketClient::create_headers: the signature (hex) and the timestamp
\* (digits) always encode; the public key may not
create_headers(client, timestamp, signature) ==
    IF HeaderValueOk(client.public_key)
    THEN Ok([X_Api_Key |-> client.public_key,
             X_Request_Sign |-> signature,
             X_Sign_Date |-> timestamp])
    ELSE Err(HeaderError("HeaderError"))

\* CSFloatClient::create_headers
CSFloatHeaders(client) ==
    IF HeaderValueOk(client.api_key)
    THEN Ok([Authorization |-> client.api_key])
    ELSE Err(HeaderError("InvalidHeaderValue"))

\* the header map of BuffMarketClient::get_buy_orders (cookie only) and of
\* get_market_listings (cookie, then x-csrftoken)
BuffHeaders(client, e) ==
    IF ~HeaderValueOk(client.session_cookie)
    THEN Err(InvalidInput("Invalid session cookie format"))
    ELSE IF e = "BuffMarketClient::get_buy_orders"
    THEN Ok([COOKIE |-> client.session_cookie])
    ELSE IF ~HeaderValueOk(client.csrf_token)
    THEN Err(InvalidInput("Invalid CSRF token format"))
    ELSE Ok([COOKIE |-> client.session_cookie, x_csrftoken |-> client.csrf_token])

\* what generate_signature was called with, and what it returned
SignCall(client, timestamp, method, path, body) ==
    [timestamp |-> timestamp, method |-> method, path |-> path, body |-> body,
     result |-> generate_signature(client, timestamp, method, path, body)]

\* the request .send() puts on the wire: format!("{}{}", API_BASE_URL, path)
\* goes through Url::parse; a bodyless builder sends an empty body
Request(verb, path, body, headers) ==
    [verb |-> verb, target |-> UrlParse(path), body |-> body, headers |-> headers]

\* a DMarket handler up to send(): timestamp, method, path, body, signature,
\* headers, url, request
DMarketRequest(client, e, query, timestamp) ==
    LET sig == SignCall(client, timestamp, MethodLiteral(e), Path(e, query), Body(e))
        headers == create_headers(client, timestamp, sig.result.val)
    IN  [signed |-> Some(sig),
         result |-> IF headers.ok
                    THEN Ok(Request(Verb(e), Path(e, query), Body(e), headers.val))
                    ELSE Err(headers.err)]

\* CSFloatClient::get / ::post up to send()
CSFloatRequest(client, e) ==
    [signed |-> None,
     result |-> IF CSFloatHeaders(client).ok
                THEN Ok(Request(Verb(e), Path(e, <<>>), Body(e),
                                CSFloatHeaders(client).val))
                ELSE Err(CSFloatHeaders(client).err)]

\* BuffMarketClient::get_buy_orders / ::get_market_listings up to send()
BuffRequest(client, e) ==
    [signed |-> None,
     result |-> IF BuffHeaders(client, e).ok
                THEN Ok(Request(GET, Path(e, <<>>), <<>>, BuffHeaders(client, e).val))
                ELSE Err(BuffHeaders(client, e).err)]

BuildRequest(cs, e, query, timestamp) ==
    CASE ClientOf(e) = "dmarket" ->
             DMarketRequest(cs["dmarket"].val.val, e, query, timestamp)
      [] ClientOf(e) = "csfloat" -> CSFloatRequest(cs["csfloat"].val.val, e)
      [] OTHER -> BuffRequest(cs["buff"].val.val, e)

----------------------------------------------------------------------------
(* The required top-level fields of the type each endpoint decodes.  Nested *)
(* structs are "any": their own fields are not modelled here.              *)

UserProfileSchema ==
    << <<"id", "str">>, <<"publicKey", "str">>, <<"sagaPublicKey", "str">>,
       <<"username", "str">>, <<"email", "str">>, <<"isEmailVerified", "bool">>,
       <<"isPasswordSet", "bool">>, <<"imageUrl", "str">>, <<"level", "num">>,
       <<"countryCodeFromIP", "str">>, <<"countryCode", "str">>,
       <<"settings", "any">>, <<"steamAccount", "any">>,
       <<"agreementsInfo", "any">>, <<"regType", "str">>,
       <<"hasHistoryEvents", "bool">>, <<"ga_client_id", "str">>,
       <<"migrated", "bool">>, <<"hasActiveSubscriptions", "bool">>,
       <<"linkedGames", "arr">>, <<"features", "arr">>, <<"restrictions", "arr">>,
       <<"twitchAccount", "any">>, <<"instagramAccount", "any">>,
       <<"twitterAccount", "any">>, <<"ethereumAccount", "any">>,
       <<"storefront", "any">>, <<"tinNotRequired", "bool">>,
       <<"promoToken", "str">> >>

\* SellOfferResponse, BuyOfferResponse, CreateTargetResponse
OfferResponseSchema ==
    << <<"Items", "arr">>, <<"HasErrors", "bool">>, <<"TotalSucceed", "num">>,
       <<"TotalFailed", "num">> >>

ImportResponseSchema ==
    << <<"OperationID", "str">>, <<"SteamTradeID", "str">>,
       <<"SteamTradeState", "str">>, <<"Items", "arr">> >>

ExportResponseSchema ==
    << <<"OperationID", "str">>, <<"SteamTradeID", "str">>, <<"State", "str">>,
       <<"Assets", "arr">>, <<"ErrorMessage", "str">> >>

\* MarketItemsResponse, TargetListResponse, DMarketGamesApiResponse
ObjectsTotalSchema == << <<"objects", "arr">>, <<"total", "num">> >>

ListingSchema ==
    << <<"id", "str">>, <<"created_at", "str">>, <<"type", "str">>,
       <<"price", "num">>, <<"state", "str">>, <<"seller", "any">>,
       <<"item", "any">>, <<"is_seller", "bool">>, <<"is_watchlisted", "bool">>,
       <<"watchers", "num">> >>

Schema(e) ==
    CASE e \in {"DMarketClient::get_user_profile", "AccountHandler::get_user_profile"}
            -> UserProfileSchema
      [] e \in {"DMarketClient::create_sell_offer", "DMarketClient::cancel_sell_offer",
                "DMarketClient::update_offer_price", "DMarketClient::buy_offer",
                "DMarketClient::create_target", "DMarketClient::delete_targets",
                "TradingHandler::create_sell_offer", "TradingHandler::cancel_sell_offer",
                "TradingHandler::update_offer_price", "TradingHandler::buy_offer",
                "TargetHandler::create_target", "TargetHandler::delete_targets"}
            -> OfferResponseSchema
      [] e \in {"DMarketClient::import_items", "TradingHandler::import_items"}
            -> ImportResponseSchema
      [] e \in {"DMarketClient::export_items", "TradingHandler::export_items"}
            -> ExportResponseSchema
      [] e \in {"DMarketClient::get_user_sell_offers", "DMarketClient::get_market_item_details",
                "DMarketClient::get_targets", "TradingHandler::get_user_sell_offers",
                "ExchangeHandler::get_market_item_details", "TargetHandler::get_targets",
                "ExchangeHandler::get_games"}
            -> ObjectsTotalSchema
      [] e \in {"DMarketClient::get_market_items", "DMarketClient::search_market_items",
                "ExchangeHandler::search_market_items"}
            -> << <<"total", "obj">> >>      \* DMarketResponse.total: TotalCounts
      [] e = "ExchangeHandler::get_market_items"
            -> << <<"total", "str">> >>      \* DMarketResponse.total: String
      [] e = "DMarketClient::get_games"
            -> << <<"games", "arr">> >>      \* DMarketGamesResponse
      [] e = "ListingsHandler::get_listings"
            -> << <<"data", "arr">> >>       \* ListingResponse
      [] e \in {"ListingsHandler::get_listing", "ListingsHandler::create_listing"}
            -> ListingSchema
      [] OTHER -> <<>>    \* serde_json::Value; inventory: DecodeListResponse

----------------------------------------------------------------------------
(* The market-items normalizers: DMarketClient::get_market_items and        *)
(* ::search_market_items, ExchangeHandler::get_market_items and             *)
(* ::search_market_items                                                    *)

MarketItemsEndpoints ==
    {"DMarketClient::get_market_items", "DMarketClient::search_market_items",
     "ExchangeHandler::get_market_items", "ExchangeHandler::search_market_items"}

\* the normalizer whose DMarketResponse.total is a String
StringTotalEndpoints == {"ExchangeHandler::get_market_items"}

\* the normalizers that return total as a String (total_items.to_string())
StringResultEndpoints ==
    {"ExchangeHandler::get_market_items", "ExchangeHandler::search_market_items"}

DMarketMarketItemSchema ==
    << <<"itemId", "str">>, <<"title", "str">>, <<"gameId", "str">>,
       <<"classId", "str">>, <<"price", "obj">> >>

\* DMarketMarketItem with its ApiPrice { USD: String, DMC: Option<String> }
ItemFits(j) ==
    /\ DecodeStruct(j, DMarketMarketItemSchema).ok
    /\ FieldOk(j.o.price, <<"USD", "str">>)
    /\ IsAbsent(j.o.price, "DMC") \/ j.o.price.o.DMC.t = "str"

\* #[serde(default)] Vec<DMarketMarketItem> under key k: an absent key is the
\* empty list; a key that is present must hold an array of items
ListFits(j, k) ==
    ~HasKey(j, k) \/ (j.o[k].t = "arr" /\ \A i \in 1..Len(j.o[k].a) : ItemFits(j.o[k].a[i]))

ListOf(j, k) == IF HasKey(j, k) THEN j.o[k].a ELSE <<>>

\* DMarketResponse.total: a String in ExchangeHandler::get_market_items, in the
\* other three TotalCounts, an object whose counter offers is an integer when
\* it is there
TotalFits(e, j) ==
    /\ HasKey(j, "total")
    /\ IF e \in StringTotalEndpoints THEN j.o.total.t = "str"
       ELSE /\ j.o.total.t = "obj"
            /\ ~HasKey(j.o.total, "offers") \/ j.o.total.o.offers.t = "num"

\* serde_json::from_str::<DMarketResponse>(&response_text)
DecodeDMarketResponse(e, j) ==
    IF j.t = "obj" /\ ListFits(j, "objects") /\ ListFits(j, "items") /\ TotalFits(e, j)
    THEN Ok([objects |-> ListOf(j, "objects"), items |-> ListOf(j, "items"),
             total |-> j.o.total])
    ELSE Err(DataDiag)

\* variant that reads the list from objects only
ItemsToProcess_ObjectsOnly(decoded) == decoded.objects

\* if !dmarket_response.objects.is_empty() { objects } else { items }
ItemsToProcess(decoded) ==
    IF decoded.objects # <<>> THEN decoded.objects ELSE decoded.items

\* i32::to_string
DecimalString(n) == <<"0", "1", "2", "3", "4", "5", "6", "7", "8", "9">>[n + 1]

\* dmarket_response.total.offers, 0 when the counter is not there
Offers(total) == IF HasKey(total, "offers") THEN total.o.offers.n ELSE 0

\* the total of the MarketItemsResponse the normalizer returns
TotalItems(e, total) ==
    IF e \in StringTotalEndpoints THEN total.s
    ELSE IF e \in StringResultEndpoints THEN DecimalString(Offers(total))
    ELSE Offers(total)

\* item.other.get(k).and_then(|v| v.as_str()).unwrap_or(d)
NamedString(j, k, d) == IF HasKey(j, k) /\ j.o[k].t = "str" THEN j.o[k].s ELSE d

\* MarketItem { item_id, title, status, class_id, price, gameId, .. }
MarketItem(j) ==
    [item_id |-> j.o.itemId.s, title |-> j.o.title.s,
     status |-> NamedString(j, "status", "active"), class_id |-> j.o.classId.s,
     price |-> [amount |-> j.o.price.o.USD.s, currency |-> "USD"],
     gameId |-> j.o.gameId.s]

\* Ok(MarketItemsResponse { objects: market_items, total })
MarketItems(e, decoded) ==
    [objects |-> [i \in 1..Len(ItemsToProcess(decoded)) |->
                     MarketItem(ItemsToProcess(decoded)[i])],
     total |-> TotalItems(e, decoded.total)]

----------------------------------------------------------------------------
(* The inventory and games normalizers: DMarketClient::get_inventory and   *)
(* ::get_games, InventoryHandler::get_inventory, ExchangeHandler::get_games *)

InventoryEndpoints ==
    {"DMarketClient::get_inventory", "InventoryHandler::get_inventory"}
GamesEndpoints == {"DMarketClient::get_games", "ExchangeHandler::get_games"}
ListEndpoints == MarketItemsEndpoints \cup InventoryEndpoints \cup GamesEndpoints

\* the required fields of one element of the list: DMarketMarketItem,
\* DMarketInventoryItem, DMarketGame, DMarketApiGameItem
ElementSchema(e) ==
    IF e \in MarketItemsEndpoints THEN DMarketMarketItemSchema
    ELSE IF e \in InventoryEndpoints
    THEN << <<"itemId", "str">>, <<"name", "str">>, <<"classId", "str">>,
            <<"gameId", "str">> >>
    ELSE IF e = "DMarketClient::get_games"
    THEN << <<"id", "str">>, <<"name", "str">> >>
    ELSE << <<"id", "str">>, <<"title", "str">> >>

\* its Option fields: DMarketApiGameItem has eight
ElementOptions(e) ==
    IF e = "ExchangeHandler::get_games"
    THEN << <<"slug", "str">>, <<"logoImageUrl", "str">>, <<"type", "str">>,
            <<"homeImageURL", "str">>, <<"offersCount", "num">>,
            <<"isReleased", "bool">>, <<"authMethod", "str">>,
            <<"maintenance", "bool">> >>
    ELSE <<>>

\* an Option<T> field f = <<key, type>>: absent, null, or a value of the type
OptionFits(j, f) == IsAbsent(j, f[1]) \/ j.o[f[1]].t = f[2]

\* the JSON value decodes into the element type of an inventory or games list
ElementFits(e, j) ==
    /\ DecodeStruct(j, ElementSchema(e)).ok
    /\ \A i \in 1..Len(ElementOptions(e)) : OptionFits(j, ElementOptions(e)[i])

\* the key of the list: items, games, objects
ListKey(e) ==
    IF e \in InventoryEndpoints THEN "items"
    ELSE IF e = "DMarketClient::get_games" THEN "games"
    ELSE "objects"

\* the Vec under the key: #[serde(default)] in the inventory response,
\* required in the games responses; every element must decode
ElementsFit(e, j) ==
    IF HasKey(j, ListKey(e))
    THEN /\ j.o[ListKey(e)].t = "arr"
         /\ \A i \in 1..Len(j.o[ListKey(e)].a) : ElementFits(e, j.o[ListKey(e)].a[i])
    ELSE e \in InventoryEndpoints

\* total: i32, defaulted in the inventory response, required in
\* DMarketGamesApiResponse, no field of DMarketGamesResponse
ListTotalFits(e, j) ==
    IF e = "DMarketClient::get_games" THEN TRUE
    ELSE IF HasKey(j, "total") THEN j.o.total.t = "num"
    ELSE e \in InventoryEndpoints

\* serde_json::from_str::<DMarketInventoryApiResponse / DMarketGamesResponse /
\* DMarketGamesApiResponse>(&response_text)
DecodeListResponse(e, j) ==
    IF j.t = "obj" /\ ElementsFit(e, j) /\ ListTotalFits(e, j)
    THEN Ok(IF e = "DMarketClient::get_games" THEN [games |-> j.o.games.a]
            ELSE IF e \in GamesEndpoints
            THEN [objects |-> j.o.objects.a, total |-> j.o.total.n]
            ELSE [items |-> ListOf(j, "items"),
                  total |-> IF HasKey(j, "total") THEN j.o.total.n ELSE 0])
    ELSE Err(DataDiag)

\* InventoryItem { item_id, title: item.name, status, game: item.game_id,
\* class_id, .. }
InventoryItem(j) ==
    [item_id |-> j.o.itemId.s, title |-> j.o.name.s,
     status |-> NamedString(j, "status", "active"), game |-> j.o.gameId.s,
     class_id |-> j.o.classId.s]

\* Game { id, title, slug, status, .. }
Game(e, j) ==
    IF e = "DMarketClient::get_games"
    THEN [id |-> j.o.id.s, title |-> j.o.name.s, slug |-> "", status |-> "active"]
    ELSE [id |-> j.o.id.s, title |-> j.o.title.s,
          slug |-> IF IsAbsent(j, "slug") THEN "" ELSE j.o.slug.s,
          status |-> NamedString(j, "status", "active")]

TypedElement(e, j) ==
    IF e \in MarketItemsEndpoints THEN MarketItem(j)
    ELSE IF e \in InventoryEndpoints THEN InventoryItem(j)
    ELSE Game(e, j)

\* variant that collects the typed elements last to first
TypedElements_Reversed(e, l) ==
    [i \in 1..Len(l) |-> TypedElement(e, l[Len(l) + 1 - i])]

\* .into_iter().map(|item| ..).collect()
TypedElements(e, l) == [i \in 1..Len(l) |-> TypedElement(e, l[i])]

\* Ok(InventoryResponse { objects, total }) / Ok(games)
ListResult(e, decoded) ==
    IF e \in InventoryEndpoints
    THEN [objects |-> TypedElements(e, decoded.items), total |-> decoded.total]
    ELSE IF e = "DMarketClient::get_games" THEN TypedElements(e, decoded.games)
    ELSE TypedElements(e, decoded.objects)

----------------------------------------------------------------------------
(* Errors *)

\* reqwest::Error, by what produced it
ReqwestSend == [kind |-> "request"]                     \* send() failed
ReqwestBody == [kind |-> "body"]                        \* reading the body failed
ReqwestDecode(d) == [kind |-> "decode", diag |-> d]     \* Response::json could not decode
ReqwestStatus(st) == [kind |-> "status", status |-> st] \* Response::error_for_status

\* #[from] reqwest::Error: DMarketError::RequestError, CSFloatError::HttpError,
\* BuffMarketError::HttpRequest
TransportError(c, r) ==
    [kind |-> CASE c = "dmarket" -> "RequestError"
                [] c = "csfloat" -> "HttpError"
                [] OTHER -> "HttpRequest",
     inner |-> r]

\* #[from] serde_json::Error: DMarketError::JsonError,
\* CSFloatError::SerializationError, BuffMarketError::JsonParse
JsonErrorOf(c, d) ==
    [kind |-> CASE c = "dmarket" -> "JsonError"
                [] c = "csfloat" -> "SerializationError"
                [] OTHER -> "JsonParse",
     inner |-> d]

\* ApiError(format!("API returned error status {}: {}", status, error_text)) and
\* ApiError(format!("API request failed with status {}: {}", status, error_text))
StatusError(c, st, text) ==
    [kind |-> "ApiError",
     message |-> [fmt |-> IF c = "dmarket" THEN "API returned error status {}: {}"
                          ELSE "API request failed with status {}: {}",
                  status |-> st, text |-> text]]

\* BuffMarketError::ApiError { message }
BuffApiError(m) == [kind |-> "ApiError", message |-> m]
BuffUnknown == [kind |-> "Unknown"]

\* StatusCode::is_success
IsSuccess(st) == st >= 200 /\ st <= 299
\* Response::error_for_status is an Err for 4xx and 5xx only
IsClientOrServerError(st) == st >= 400 /\ st <= 599

----------------------------------------------------------------------------
(* What the handler does with the body text *)

\* serde_json::from_str::<T>(&text) for the endpoint's type
Decode(e, text) ==
    IF text.kind # "json" THEN Err(SyntaxDiag)
    ELSE IF e \in MarketItemsEndpoints THEN DecodeDMarketResponse(e, text.json)
    ELSE IF e \in ListEndpoints THEN DecodeListResponse(e, text.json)
    ELSE IF Schema(e) = <<>> THEN Ok(text.json)
    ELSE DecodeStruct(text.json, Schema(e))

\* get_account_balance: the USD and DMC balances, read from the string fields
\* usd and dmc of the JSON value
Balances(j) ==
    (IF j.t = "obj" /\ HasKey(j, "usd") /\ j.o.usd.t = "str"
        THEN << [amount |-> j.o.usd.s, currency |-> "USD"] >> ELSE <<>>)
    \o (IF j.t = "obj" /\ HasKey(j, "dmc") /\ j.o.dmc.t = "str"
        THEN << [amount |-> j.o.dmc.s, currency |-> "DMC"] >> ELSE <<>>)

ResultValue(e, decoded) ==
    IF e \in BalanceEndpoints THEN Balances(decoded)
    ELSE IF e \in MarketItemsEndpoints THEN MarketItems(e, decoded)
    ELSE IF e \in ListEndpoints THEN ListResult(e, decoded)
    ELSE decoded

\* variant of the text-first handlers that reports a body it cannot decode as
\* an ApiError holding the body text
TextThenDecode_ErrorHoldsText(e, st, text) ==
    IF ~IsSuccess(st)
    THEN [result |-> Err(StatusError(ClientOf(e), st, text)), ev |-> <<>>]
    ELSE LET d == Decode(e, text)
         IN  [result |-> IF d.ok THEN Ok(ResultValue(e, d.val))
                         ELSE Err(StatusError(ClientOf(e), st, text)),
              ev |-> <<"decode">>]

\* status check first, then from_str on the text (CSFloatClient::get/post, the
\* DMarket list endpoints, AccountHandler::get_account_balance); also the error
\* branch of the endpoints that decode with Response::json
TextThenDecode(e, st, text) ==
    IF ~IsSuccess(st)
    THEN [result |-> Err(StatusError(ClientOf(e), st, text)), ev |-> <<>>]
    ELSE LET d == Decode(e, text)
         IN  [result |-> IF d.ok THEN Ok(ResultValue(e, d.val))
                         ELSE Err(JsonErrorOf(ClientOf(e), d.err)),
              ev |-> <<"decode">>]

\* get_user_profile_raw
RawProfile(e, st, text) ==
    IF ~IsSuccess(st)
    THEN [result |-> Err(StatusError(ClientOf(e), st, text)), ev |-> <<>>]
    ELSE [result |-> Ok(text), ev |-> <<>>]

\* DMarketClient::get_account_balance: from_str(&response_text)? comes before
\* the status check
ParseThenStatus(e, st, text) ==
    LET d == Decode(e, text)
    IN  IF ~d.ok
        THEN [result |-> Err(JsonErrorOf(ClientOf(e), d.err)), ev |-> <<"decode">>]
        ELSE IF ~IsSuccess(st)
        THEN [result |-> Err(StatusError(ClientOf(e), st, text)), ev |-> <<"decode">>]
        ELSE [result |-> Ok(ResultValue(e, d.val)), ev |-> <<"decode">>]

\* variant of the success branch that returns the envelope whatever its code
BuffEnvelope_IgnoresCode(e, text) ==
    LET d == DecodeEnvelope(text, e)
    IN  IF ~d.ok
        THEN [result |-> Err(JsonErrorOf("buff", d.err)), ev |-> <<"decode">>]
        ELSE [result |-> Ok(d.val), ev |-> <<"decode">>]

\* BuffMarketClient::get_buy_orders / get_market_listings, success branch
BuffEnvelope(e, text) ==
    LET d == DecodeEnvelope(text, e)
    IN  IF ~d.ok
        THEN [result |-> Err(JsonErrorOf("buff", d.err)), ev |-> <<"decode">>]
        ELSE IF d.val.code # "OK"
        THEN [result |-> Err(BuffApiError(IF d.val.msg.some THEN d.val.msg.val
                                          ELSE "Unknown API error")),
              ev |-> <<"decode">>]
        ELSE [result |-> Ok(d.val), ev |-> <<"decode">>]

\* the handler's code after response.text() returned
AfterText(e, st, text) ==
    CASE Style(e) = "raw" -> RawProfile(e, st, text)
      [] Style(e) = "parse_first" -> ParseThenStatus(e, st, text)
      [] Style(e) = "buff" -> BuffEnvelope(e, text)
      [] OTHER -> TextThenDecode(e, st, text)

\* Response::json::<T>(): decodes the body bytes; a decode failure is a
\* reqwest::Error
AfterJson(e, text) ==
    LET d == Decode(e, text)
    IN  IF d.ok THEN Ok(d.val)
        ELSE Err(TransportError(ClientOf(e), ReqwestDecode(d.err)))

\* the await the handler reaches once send() returned a response with status st
NextAwait(e, st) ==
    IF Style(e) = "buff" /\ ~IsSuccess(st) THEN "none"
    ELSE IF Style(e) = "json" /\ IsSuccess(st) THEN "json"
    ELSE "text"

\* Buff error branch: match response.error_for_status()
BuffErrorForStatus(st) ==
    IF IsClientOrServerError(st)
    THEN Err(TransportError("buff", ReqwestStatus(st)))
    ELSE Err(BuffUnknown)

----------------------------------------------------------------------------
(* The remote service: the responses the model lets it give *)

Statuses == {200, 304, 404, 500}
PageLens == {0, 1, 2}
TotalCounts == {0, 20}
TotalPageValues == {-1} \cup (0..MaxTotalPage)

SampleOf(ty) ==
    CASE ty = "str" -> JStr("x")
      [] ty = "num" -> JNum(1)
      [] ty = "bool" -> JBool(TRUE)
      [] ty = "arr" -> JArr(<<>>)
      [] OTHER -> JObj([k \in {"x"} |-> JStr("x")])

FieldType(schema, k) == schema[CHOOSE i \in 1..Len(schema) : schema[i][1] = k][2]
SampleObject(schema) ==
    JObj([k \in {schema[i][1] : i \in 1..Len(schema)} |-> SampleOf(FieldType(schema, k))])

\* a body that decodes into the endpoint's type
WellTyped(e) ==
    IF e \in BalanceEndpoints
    THEN JObj([usd |-> JStr("1.00"), dmc |-> JStr("0.00")])
    ELSE IF Schema(e) = <<>> THEN JObj([total |-> JNum(0)])
    ELSE SampleObject(Schema(e))

\* valid JSON of another shape
ErrorObject == JObj([error |-> JStr("x")])

\* the j-th item of page p of the market listing
MarketGoodsItemJson(p, j) ==
    JObj([appid |-> JNum(730), id |-> JNum(10 * p + j), name |-> JStr("item"),
          market_hash_name |-> JStr("item"), sell_min_price |-> JStr("605"),
          icon_url |-> JStr("u")])

BuyOrderItemJson(p, j) ==
    JObj([app_id |-> JNum(730), bookmarked |-> JBool(FALSE), buy_num |-> JNum(1),
          can_bargain |-> JBool(FALSE), can_search_intent |-> JBool(FALSE),
          created_at |-> JNum(0), goods_id |-> JNum(1), id |-> JStr("order"),
          updated_at |-> JNum(0), user_id |-> JNum(10 * p + j), price |-> JStr("1"),
          state |-> JNum(1), supported_pay_method |-> JNum(1)])

PageJson(e, p, n, tc, tp) ==
    JObj([items |-> JArr([j \in 1..n |->
                            IF e = "BuffMarketClient::get_buy_orders"
                            THEN BuyOrderItemJson(p, j)
                            ELSE MarketGoodsItemJson(p, j)]),
          page_num |-> JNum(p), page_size |-> JNum(20),
          total_count |-> JNum(tc), total_page |-> JNum(tp)])

\* an item of a market-items response
MarketItemJson(n) ==
    JObj([itemId |-> JStr(DecimalString(n)), title |-> JStr("AK-47"),
          gameId |-> JStr("a8db"), classId |-> JStr("c"),
          price |-> JObj([USD |-> JStr("605")])])

ItemLists == {<<MarketItemJson(1)>>, <<MarketItemJson(2), MarketItemJson(3)>>}

\* the ways the lists arrive: objects alone, items alone, both, an empty
\* objects next to items, neither
ListFields ==
    {[objects |-> JArr(l)] : l \in ItemLists \cup {<<>>}}
    \cup {[items |-> JArr(l)] : l \in ItemLists}
    \cup {[objects |-> JArr(l), items |-> JArr(<<MarketItemJson(4)>>)] :
            l \in ItemLists \cup {<<>>}}
    \cup {[cursor |-> JStr("")]}

\* the ways the total arrives: an integer, a numeric string, an object of
\* named counters (with and without offers), not at all
TotalFields ==
    {[total |-> JNum(5)], [total |-> JStr("5")],
     [total |-> JObj([offers |-> JNum(5), targets |-> JNum(1)])],
     [total |-> JObj([items |-> JNum(2)])],
     [cursor |-> JStr("")]}

MarketItemsTexts == {JsonText(JObj(l @@ t)) : l \in ListFields, t \in TotalFields}

\* a key that no response type and no normalizer names
UnknownKey == "unknownKey"

\* the n-th element of a list response of endpoint e
ElementJson(e, n) ==
    IF e \in MarketItemsEndpoints THEN MarketItemJson(n)
    ELSE IF e \in InventoryEndpoints
    THEN JObj([itemId |-> JStr(DecimalString(n)), name |-> JStr("AK-47"),
               classId |-> JStr("c"), gameId |-> JStr("a8db")])
    ELSE IF e = "DMarketClient::get_games"
    THEN JObj([id |-> JStr(DecimalString(n)), name |-> JStr("CS2")])
    ELSE JObj([id |-> JStr(DecimalString(n)), title |-> JStr("CS2"),
               slug |-> JStr("cs2"), offersCount |-> JNum(7)])

\* object j without key k, and with key k holding v
Without(j, k) == JObj([x \in DOMAIN j.o \ {k} |-> j.o[x]])
With(j, k, v) == JObj((k :> v) @@ j.o)

\* the n-th element with one required field missing
BadElements(e, n) ==
    {Without(ElementJson(e, n), ElementSchema(e)[i][1]) :
        i \in 1..Len(ElementSchema(e))}
    \cup (IF e \in MarketItemsEndpoints
          THEN {With(ElementJson(e, n), "price", JObj([DMC |-> JStr("1")]))}
          ELSE {})

\* lists: empty, one element, three, with keys nobody names, with a key the
\* normalizer reads, with a second element that lacks a required field
ElementLists(e) ==
    {<<>>, <<ElementJson(e, 1)>>,
     <<ElementJson(e, 1), ElementJson(e, 2), ElementJson(e, 3)>>,
     <<With(ElementJson(e, 1), UnknownKey, JStr("v")), ElementJson(e, 2),
       With(ElementJson(e, 3), UnknownKey, JNum(1))>>,
     <<With(ElementJson(e, 1), "status", JStr("sold")), ElementJson(e, 2)>>}
    \cup {<<ElementJson(e, 1), b, ElementJson(e, 3)>> : b \in BadElements(e, 2)}

\* a total of the type the endpoint's response type declares
TotalJson(e) ==
    IF e \in StringTotalEndpoints THEN JStr("5")
    ELSE IF e \in MarketItemsEndpoints THEN JObj([offers |-> JNum(5)])
    ELSE JNum(5)

ListBody(e, l) ==
    JObj((IF e \in MarketItemsEndpoints THEN "objects" ELSE ListKey(e)) :> JArr(l)
         @@ [total |-> TotalJson(e)])

\* list responses, each with and without an unknown key at the top level;
\* for the market-items endpoints also one whose items list, next to a good
\* objects list, has an element without a title
ListTexts(e) ==
    {JsonText(ListBody(e, l)) : l \in ElementLists(e)}
    \cup {JsonText(With(ListBody(e, l), UnknownKey, JStr("v"))) : l \in ElementLists(e)}
    \cup (IF e \in MarketItemsEndpoints
          THEN {JsonText(With(ListBody(e, <<ElementJson(e, 1)>>), "items",
                              JArr(<<Without(ElementJson(e, 2), "title")>>)))}
          ELSE {})

\* {code, data, msg} envelopes
BuffTexts(e, p) ==
    {JsonText(JObj([code |-> JStr("FAIL"), msg |-> JStr("bad request")])),
     JsonText(JObj([code |-> JStr("FAIL")])),
     JsonText(JObj([code |-> JStr("FAIL"), msg |-> JNull])),
     JsonText(JObj([code |-> JStr("Login Required"), msg |-> JStr("login")])),
     JsonText(JObj([code |-> JStr("FAIL"), data |-> ErrorObject,
                    msg |-> JStr("bad request")])),
     JsonText(JObj([code |-> JStr("FAIL"), data |-> PageJson(e, p, 1, 20, 1),
                    msg |-> JStr("bad request")])),
     JsonText(JObj([code |-> JStr("OK")])),
     JsonText(JObj([code |-> JStr("OK"), data |-> JNull, msg |-> JNull]))}
    \cup {JsonText(JObj([code |-> JStr("OK"), data |-> PageJson(e, p, n, tc, tp)])) :
            n \in PageLens, tc \in TotalCounts, tp \in TotalPageValues}

ServerTexts(e, p) ==
    {RawText("not found"), JsonText(ErrorObject)}
    \cup (IF e \in BuffEndpoints THEN BuffTexts(e, p)
          ELSE IF e \in MarketItemsEndpoints THEN MarketItemsTexts \cup ListTexts(e)
          ELSE IF e \in ListEndpoints THEN {JsonText(WellTyped(e))} \cup ListTexts(e)
          ELSE {JsonText(WellTyped(e))})

ServerResponses(e, p) == [status : Statuses, body : ServerTexts(e, p)]

NoResponse == [status |-> 0, body |-> RawText("")]

----------------------------------------------------------------------------
(* The environments and arguments the model draws from *)

KeyBytes == {"a", "b"}

\* strings of hex digits that encode 0, 16, 31, 32, 33, 64 and 65 bytes, a
\* string with an odd number of digits, one with a character that is no digit,
\* and one shorter than MinPrivateKeyChars
PrivateKeys ==
    {PrivateKeyString(n, TRUE, x, x) :
        n \in {0, 31, SeedBytes, 2 * SeedBytes - 2, 2 * SeedBytes + 1,
               2 * SeedBytes + 2, 2 * SeedAndPublicBytes + 2},
        x \in {"a"}}
    \cup {PrivateKeyString(2 * SeedBytes, h, x, x) : h \in BOOLEAN, x \in KeyBytes}
    \cup {PrivateKeyString(2 * SeedAndPublicBytes, TRUE, x, y) :
            x \in KeyBytes, y \in KeyBytes}

PublicKeys ==
    {Credential(0, TRUE), Credential(MinPublicKeyChars - 1, TRUE),
     Credential(MinPublicKeyChars, TRUE), Credential(MinPublicKeyChars, FALSE),
     Credential(2 * MinPublicKeyChars, TRUE)}

\* an API key, session cookie or CSRF token: empty, or not, with or without
\* a byte that no header value may hold
Secrets == {Credential(0, TRUE), Credential(8, TRUE), Credential(8, FALSE)}

GoodPrivateKey == PrivateKeyString(2 * SeedBytes, TRUE, "a", "a")
GoodPublicKey == Credential(2 * MinPublicKeyChars, TRUE)
GoodSecret == Credential(8, TRUE)

Env(priv, pub, api, cookie, csrf) ==
    [DMARKET_PRIVATE_KEY |-> priv, DMARKET_PUBLIC_KEY |-> pub,
     CSFLOAT_API_KEY |-> api, session_cookie |-> cookie, csrf_token |-> csrf,
     http_client_builds |-> TRUE]

GoodEnv ==
    Env(Some(GoodPrivateKey), Some(GoodPublicKey), Some(GoodSecret),
        GoodSecret, GoodSecret)

\* one marketplace's credentials vary at a time; in the last environment
\* reqwest's ClientBuilder::build fails (no TLS backend, no resolver
\* configuration)
Envs ==
    {[GoodEnv EXCEPT !.DMARKET_PRIVATE_KEY = priv, !.DMARKET_PUBLIC_KEY = pub] :
        priv \in {None} \cup {Some(k) : k \in PrivateKeys},
        pub \in {None} \cup {Some(k) : k \in PublicKeys}}
    \cup {[GoodEnv EXCEPT !.CSFLOAT_API_KEY = api] :
            api \in {None} \cup {Some(k) : k \in Secrets}}
    \cup {[GoodEnv EXCEPT !.session_cookie = c, !.csrf_token = t] :
            c \in Secrets, t \in Secrets}
    \cup {[GoodEnv EXCEPT !.http_client_builds = FALSE]}

\* the environments in which all three constructors return a client, with
\* at most one credential that cannot be a header value
CallEnvs ==
    {GoodEnv,
     [GoodEnv EXCEPT !.DMARKET_PUBLIC_KEY = Some(Credential(MinPublicKeyChars, FALSE))],
     [GoodEnv EXCEPT !.CSFLOAT_API_KEY = Some(Credential(8, FALSE))],
     [GoodEnv EXCEPT !.session_cookie = Credential(8, FALSE)],
     [GoodEnv EXCEPT !.csrf_token = Credential(8, FALSE)]}

\* Utc::now().timestamp().to_string()
Timestamps == {<<"1">>, <<"2">>}

\* the caller's search text
Queries == {<<"a">>, <<"a", " ", "k">>}

\* arguments of generate_signature taken alone
SignTimestamps == {<<"1">>, <<"2">>, <<"1", "2">>}
SignMethods == {GET, <<"g", "e", "t">>, POST}
SignPaths == {<<"/", "a">>, <<"a">>, <<"/", "b">>}
SignBodies == {<<>>, <<"{", "}">>, <<"1">>}

----------------------------------------------------------------------------
(* One endpoint call *)

CallInit ==
    /\ cpc = "idle"
    /\ endpoint = "none"
    /\ page_num = 0
    /\ wire = NoResponse
    /\ captured = None
    /\ events = <<>>
    /\ cresult = None
    /\ signed = None
    /\ sent = <<>>

\* the handler runs up to its first await: it reads the clock, builds the
\* request and awaits send(), or returns the error of a `?` on the way
IssueRequest(e, p) ==
    /\ clients[ClientOf(e)].some
    /\ clients[ClientOf(e)].val.ok
    /\ endpoint' = e
    /\ page_num' = p
    /\ wire' = NoResponse
    /\ captured' = None
    /\ \E query \in Queries, timestamp \in Timestamps :
         LET built == BuildRequest(clients, e, query, timestamp)
         IN  /\ signed' = built.signed
             /\ IF built.result.ok
                THEN /\ cpc' = "send"
                     /\ events' = <<"request">>
                     /\ sent' = <<built.result.val>>
                     /\ cresult' = None
                ELSE /\ cpc' = "done"
                     /\ events' = <<>>
                     /\ sent' = <<>>
                     /\ cresult' = Some(Err(built.result.err))
    /\ UNCHANGED clientVars

\* variant that sends the request again when send() fails
SendFails_Retries ==
    /\ cpc = "send"
    /\ cpc' = "send"
    /\ Len(sent) < 3
    /\ sent' = Append(sent, sent[1])
    /\ UNCHANGED <<endpoint, page_num, wire, captured, events, cresult, signed>>
    /\ UNCHANGED clientVars

\* send().await? fails: the handler returns the transport error
SendFails ==
    /\ cpc = "send"
    /\ cpc' = "done"
    /\ cresult' = Some(Err(TransportError(ClientOf(endpoint), ReqwestSend)))
    /\ UNCHANGED <<endpoint, page_num, wire, captured, events, signed, sent>>
    /\ UNCHANGED clientVars

\* send().await returns a response; the handler reads the status and goes on
\* to its next await (Buff's error branch has none and returns)
SendCompletes ==
    /\ cpc = "send"
    /\ \E w \in ServerResponses(endpoint, page_num) :
        /\ wire' = w
        /\ IF NextAwait(endpoint, w.status) = "none"
           THEN /\ cpc' = "done"
                /\ cresult' = Some(BuffErrorForStatus(w.status))
           ELSE /\ cpc' = NextAwait(endpoint, w.status)
                /\ cresult' = cresult
    /\ UNCHANGED <<endpoint, page_num, captured, events, signed, sent>>
    /\ UNCHANGED clientVars

\* response.text().await? or response.json().await? fails while reading
BodyFails ==
    /\ cpc \in {"text", "json"}
    /\ cpc' = "done"
    /\ cresult' = Some(Err(TransportError(ClientOf(endpoint), ReqwestBody)))
    /\ UNCHANGED <<endpoint, page_num, wire, captured, events, signed, sent>>
    /\ UNCHANGED clientVars

\* variant in which the body text lies in a buffer that all calls on the
\* client share: the handler reads the text of the other call's response when
\* that call has one
TextCompletes_SharedBuffer ==
    /\ cpc = "text"
    /\ LET text == IF suspended.wire # NoResponse THEN suspended.wire.body
                   ELSE wire.body
           out == AfterText(endpoint, wire.status, text)
       IN  /\ captured' = Some(text)
           /\ cresult' = Some(out.result)
           /\ events' = events \o <<"text">> \o out.ev
    /\ cpc' = "done"
    /\ UNCHANGED <<endpoint, page_num, wire, signed, sent>>
    /\ UNCHANGED clientVars

\* response.text().await returns the body text; the handler runs to its return
TextCompletes ==
    /\ cpc = "text"
    /\ captured' = Some(wire.body)
    /\ LET out == AfterText(endpoint, wire.status, wire.body)
       IN  /\ cresult' = Some(out.result)
           /\ events' = events \o <<"text">> \o out.ev
    /\ cpc' = "done"
    /\ UNCHANGED <<endpoint, page_num, wire, signed, sent>>
    /\ UNCHANGED clientVars

\* response.json::<T>().await returns; the handler never holds the text
JsonCompletes ==
    /\ cpc = "json"
    /\ cresult' = Some(AfterJson(endpoint, wire.body))
    /\ events' = events \o <<"decode">>
    /\ cpc' = "done"
    /\ UNCHANGED <<endpoint, page_num, wire, captured, signed, sent>>
    /\ UNCHANGED clientVars

\* the locals of a call that has not begun
IdleCall ==
    [cpc |-> "idle", endpoint |-> "none", page_num |-> 0, wire |-> NoResponse,
     captured |-> None, events |-> <<>>, cresult |-> None, signed |-> None,
     sent |-> <<>>]

\* no second call
OneCall == suspended = IdleCall

LoopIdle ==
    /\ fpc = "idle"
    /\ current_page = 0
    /\ total_pages = 0
    /\ all_items = <<>>
    /\ requests = <<>>
    /\ timeline = <<>>
    /\ pages = <<>>
    /\ fresult = None

StartCall ==
    /\ cpc = "idle"
    /\ fpc = "idle"
    /\ \E e \in Endpoints : IssueRequest(e, 1)
    /\ UNCHANGED <<loopVars, suspended>>

\* every client has been constructed, from an environment its constructor accepts
ClientsBuilt ==
    /\ env \in CallEnvs
    /\ clients = [c \in ClientNames |-> Some(New(c, env))]

Init == CallInit /\ LoopIdle /\ ClientsBuilt /\ OneCall

Next ==
    \/ StartCall
    \/ SendFails /\ UNCHANGED <<loopVars, suspended>>
    \/ SendCompletes /\ UNCHANGED <<loopVars, suspended>>
    \/ BodyFails /\ UNCHANGED <<loopVars, suspended>>
    \/ TextCompletes /\ UNCHANGED <<loopVars, suspended>>
    \/ JsonCompletes /\ UNCHANGED <<loopVars, suspended>>

Spec == Init /\ [][Next]_vars

----------------------------------------------------------------------------
(* BuffMarketClient::get_all_market_listings *)

MissingData(p, m) == [kind |-> "MissingData", page |-> p, msg |-> m]

\* how one pass through the loop body ends
Break(cp, tp, items) ==
    [ctl |-> "break", current_page |-> cp, total_pages |-> tp, all_items |-> items]
\* variant that steps over a page
Continue_SkipsPage(cp, tp, items) ==
    [ctl |-> "continue", current_page |-> cp + 1, total_pages |-> tp,
     all_items |-> items]
Continue(cp, tp, items) ==
    [ctl |-> "continue", current_page |-> cp, total_pages |-> tp, all_items |-> items]
ReturnOk(cp, tp, items) ==
    [ctl |-> "return", current_page |-> cp, total_pages |-> tp, all_items |-> items]
ReturnErr(cp, tp, items) ==
    [ctl |-> "error", current_page |-> cp, total_pages |-> tp, all_items |-> items]

\* variant of the loop's test that lets one page too many through
PastLastPage_OnePageLate(cp, tp) == cp > tp + 1 /\ tp # 0

\* the loop's test: if current_page > total_pages && total_pages != 0 { break; }
PastLastPage(cp, tp) == cp > tp /\ tp # 0

\* variant of the loop body without its two total_count == 0 tests
ProcessPage_IgnoresZeroTotal(cp, tp, items, resp) ==
    IF resp.data.some
    THEN LET data == resp.data.val
         IN  IF data.items = <<>> /\ cp >= tp /\ tp # 0
             THEN Break(cp, tp, items)
             ELSE LET items2 == items \o data.items
                      tp2 == data.total_page
                  IN  IF PastLastPage(cp + 1, tp2)
                      THEN Break(cp + 1, tp2, items2)
                      ELSE Continue(cp + 1, tp2, items2)
    ELSE IF resp.code = "OK"
         THEN IF cp = 1 THEN ReturnOk(cp, tp, items) ELSE Break(cp, tp, items)
         ELSE ReturnErr(cp, tp, items)

\* variant of the loop body that tests total_count == 0 before it extends
\* all_items
ProcessPage_DropsZeroTotalPage(cp, tp, items, resp) ==
    IF resp.data.some
    THEN LET data == resp.data.val
         IN  IF data.total_count = 0
             THEN Break(cp, tp, items)
             ELSE IF data.items = <<>> /\ cp >= tp /\ tp # 0
             THEN Break(cp, tp, items)
             ELSE LET items2 == items \o data.items
                      tp2 == data.total_page
                  IN  IF PastLastPage(cp + 1, tp2)
                      THEN Break(cp + 1, tp2, items2)
                      ELSE Continue(cp + 1, tp2, items2)
    ELSE IF resp.code = "OK"
         THEN IF cp = 1 THEN ReturnOk(cp, tp, items) ELSE Break(cp, tp, items)
         ELSE ReturnErr(cp, tp, items)

\* the loop body from the returned response down to the sleep, for the locals
\* current_page = cp, total_pages = tp, all_items = items
ProcessPage(cp, tp, items, resp) ==
    IF resp.data.some
    THEN LET data == resp.data.val
         IN  IF data.items = <<>> /\ data.total_count = 0
             THEN Break(cp, tp, items)
             ELSE IF data.items = <<>> /\ cp >= tp /\ tp # 0
             THEN Break(cp, tp, items)
             ELSE LET items2 == items \o data.items
                      tp2 == data.total_page
                  IN  IF data.total_count = 0
                      THEN Break(cp, tp2, items2)
                      ELSE IF PastLastPage(cp + 1, tp2)
                      THEN Break(cp + 1, tp2, items2)
                      ELSE Continue(cp + 1, tp2, items2)
    ELSE IF resp.code = "OK"
         THEN IF cp = 1 THEN ReturnOk(cp, tp, items) ELSE Break(cp, tp, items)
         ELSE ReturnErr(cp, tp, items)

\* variant of `?` that returns what was collected so far
PropagateErr_ReturnsPartial(err, items) == Ok(items)

\* self.get_market_listings(..).await?: an Err is returned to the caller as it
\* is, all_items is dropped
PropagateErr(err, items) == Err(err)

\* the call begins: all_items = Vec::new(), current_page = 1, total_pages = 1
StartFetchAll ==
    /\ fpc = "idle"
    /\ cpc = "idle"
    /\ fpc' = "top"
    /\ current_page' = 1
    /\ total_pages' = 1
    /\ all_items' = <<>>
    /\ UNCHANGED <<requests, pages, fresult, timeline>>
    /\ UNCHANGED <<callVars, clientVars, suspended>>

\* top of the loop: break, or call get_market_listings(game, current_page, page_size).
\* The model issues at most MaxRequests requests.
LoopTop ==
    /\ fpc = "top"
    /\ IF PastLastPage(current_page, total_pages)
       THEN /\ fpc' = "done"
            /\ fresult' = Some(Ok(all_items))
            /\ UNCHANGED <<requests, timeline>>
            /\ UNCHANGED <<callVars, clientVars, suspended>>
       ELSE /\ Len(requests) < MaxRequests
            /\ IssueRequest("BuffMarketClient::get_market_listings", current_page)
            /\ requests' = Append(requests, current_page)
            /\ timeline' = Append(timeline, "request")
            /\ fpc' = "call"
            /\ UNCHANGED <<fresult, suspended>>
    /\ UNCHANGED <<current_page, total_pages, all_items, pages>>

\* get_market_listings returned: `?` passes an Err on to the caller, an Ok
\* response runs the loop body
PageReturns ==
    /\ fpc = "call"
    /\ cpc = "done"
    /\ cpc' = "idle"
    /\ UNCHANGED <<endpoint, page_num, wire, captured, events, cresult, requests>>
    /\ UNCHANGED <<signed, sent>>
    /\ UNCHANGED <<clientVars, suspended>>
    /\ timeline' = Append(timeline, "response")
    /\ IF ~cresult.val.ok
       THEN /\ fpc' = "done"
            /\ fresult' = Some(PropagateErr(cresult.val.err, all_items))
            /\ UNCHANGED <<current_page, total_pages, all_items, pages>>
       ELSE LET resp == cresult.val.val
                out == ProcessPage(current_page, total_pages, all_items, resp)
            IN  /\ pages' = Append(pages, resp)
                /\ current_page' = out.current_page
                /\ total_pages' = out.total_pages
                /\ all_items' = out.all_items
                /\ fpc' = IF out.ctl = "continue" THEN "sleep" ELSE "done"
                /\ fresult' =
                     CASE out.ctl = "continue" -> fresult
                       [] out.ctl = "error" ->
                            Some(Err(MissingData(current_page, resp.msg)))
                       [] OTHER -> Some(Ok(out.all_items))

\* variant of the loop without its sleep: the next pass begins at once
SleepCompletes_NoDelay ==
    /\ fpc = "sleep"
    /\ fpc' = "top"
    /\ UNCHANGED <<current_page, total_pages, all_items, requests, pages, fresult>>
    /\ UNCHANGED timeline
    /\ UNCHANGED <<callVars, clientVars, suspended>>

\* tokio::time::sleep(500 ms) is over
SleepCompletes ==
    /\ fpc = "sleep"
    /\ fpc' = "top"
    /\ timeline' = Append(timeline, "sleep 500 ms")
    /\ UNCHANGED <<current_page, total_pages, all_items, requests, pages, fresult>>
    /\ UNCHANGED <<callVars, clientVars, suspended>>

InCall == fpc = "call"

FetchAllNext ==
    \/ StartFetchAll
    \/ LoopTop
    \/ InCall /\ SendFails /\ UNCHANGED <<loopVars, suspended>>
    \/ InCall /\ SendCompletes /\ UNCHANGED <<loopVars, suspended>>
    \/ InCall /\ BodyFails /\ UNCHANGED <<loopVars, suspended>>
    \/ InCall /\ TextCompletes /\ UNCHANGED <<loopVars, suspended>>
    \/ PageReturns
    \/ SleepCompletes

FetchAllSpec == Init /\ [][FetchAllNext]_vars

----------------------------------------------------------------------------
(* Constructing the clients and signing, without any endpoint call *)

NoClients ==
    /\ env \in Envs
    /\ clients = [c \in ClientNames |-> None]

\* DMarketClient::new(), CSFloatClient::new(), BuffMarketClient::new(..)
Construct(c) ==
    /\ ~clients[c].some
    /\ clients' = [clients EXCEPT ![c] = Some(New(c, env))]
    /\ UNCHANGED <<env, callVars, loopVars, suspended>>

\* one call of generate_signature on the constructed DMarket client
Sign ==
    /\ clients["dmarket"].some
    /\ clients["dmarket"].val.ok
    /\ \E timestamp \in SignTimestamps, method \in SignMethods,
          path \in SignPaths, body \in SignBodies :
         signed' = Some(SignCall(clients["dmarket"].val.val,
                                 timestamp, method, path, body))
    /\ UNCHANGED <<cpc, endpoint, page_num, wire, captured, events, cresult, sent>>
    /\ UNCHANGED <<clientVars, loopVars, suspended>>

ClientInit == CallInit /\ LoopIdle /\ NoClients /\ OneCall

ClientNext ==
    \/ \E c \in ClientNames : Construct(c)
    \/ Sign

ClientSpec == ClientInit /\ [][ClientNext]_vars

----------------------------------------------------------------------------
(* Properties of get_all_market_listings, checked under FetchAllSpec *)

HasData(r) == r.data.some
PageItems(r) == IF r.data.some THEN r.data.val.items ELSE <<>>
\* the items of the first n page responses, in order
ItemsOfPages(n) == Concat([i \in 1..n |-> PageItems(pages[i])])

FetchAllDone == fpc = "done" /\ fresult.some
FetchAllOk == FetchAllDone /\ fresult.val.ok

\* every page response so far has a non-empty item list, total_count > 0 and
\* total_page = n
UniformPages(n) ==
    /\ pages # <<>>
    /\ \A i \in 1..Len(pages) :
        /\ HasData(pages[i])
        /\ pages[i].data.val.items # <<>>
        /\ pages[i].data.val.total_count > 0
        /\ pages[i].data.val.total_page = n

\* C1: get_all_market_listings terminates for every sequence of successful page
\* responses: it never stands at the top of the loop needing yet another page
\* request after MaxRequests requests, although no response reports more than
\* MaxTotalPage pages.
C1_Terminates == fpc \in {"idle", "done"} \/ ENABLED FetchAllNext

\* C2: if every page response reports total_page = N >= 1, total_count > 0 and a
\* non-empty item list, the call issues exactly the N requests for pages 1..N
\* and returns exactly the items of those N pages, in order.
C2_UniformPagesFetched ==
    \A n \in 1..MaxTotalPage :
        (FetchAllOk /\ UniformPages(n)) =>
            /\ requests = [i \in 1..n |-> i]
            /\ Len(pages) = n
            /\ fresult.val.val = ItemsOfPages(n)

C2_Witness ==
    /\ FetchAllOk
    /\ UniformPages(2)
    /\ Len(requests) = 2
    /\ Len(fresult.val.val) >= 3

\* C3: no page is requested whose number exceeds the total_page reported by the
\* most recent response.
C3_StopsPastTotalPage ==
    \A i \in 2..Len(requests) :
        HasData(pages[i - 1]) => requests[i] <= pages[i - 1].data.val.total_page

\* C4: a page response with no items and total_count = 0 ends the call,
\* whatever its total_page and page number: it is the last response, no request
\* follows it, and the call returns Ok with the items of the earlier pages.
C4_EmptyZeroTotalEnds ==
    \A i \in 1..Len(pages) :
        (HasData(pages[i]) /\ pages[i].data.val.items = <<>>
            /\ pages[i].data.val.total_count = 0) =>
                /\ i = Len(pages)
                /\ Len(requests) = i
                /\ fpc = "done"
                /\ fresult = Some(Ok(ItemsOfPages(i - 1)))

C4_Witness ==
    /\ Len(pages) = 2
    /\ HasData(pages[2])
    /\ pages[2].data.val.items = <<>>
    /\ pages[2].data.val.total_count = 0
    /\ pages[2].data.val.total_page = MaxTotalPage
    /\ fresult.some /\ fresult.val.ok /\ Len(fresult.val.val) = 2

----------------------------------------------------------------------------
(* Properties of one endpoint call, checked under Spec *)

CallDone == cpc = "done" /\ cresult.some
BodyReadFailed ==
    CallDone /\ cresult.val = Err(TransportError(ClientOf(endpoint), ReqwestBody))
\* the call got a response with status and body and returned
Answered == CallDone /\ wire # NoResponse /\ ~BodyReadFailed
CallErr == cresult.val.err

\* the status code and the body text an error value holds, if any
ErrStatus(c, err) ==
    IF c # "buff" /\ err.kind = "ApiError" THEN Some(err.message.status)
    ELSE IF c = "buff" /\ err.kind = "HttpRequest" /\ err.inner.kind = "status"
    THEN Some(err.inner.status)
    ELSE None
ErrText(c, err) ==
    IF c # "buff" /\ err.kind = "ApiError" THEN Some(err.message.text) ELSE None

\* endpoints that read the body with response.text() on a success status
TextFirst(e) == Style(e) \in {"text", "parse_first", "buff"}

\* the body does not decode into the type the endpoint expects
Undecodable(e, text) ==
    IF e \in BuffEndpoints
    THEN ~DecodeEnvelope(text, e).ok
    ELSE ~Decode(e, text).ok

\* C5: for every endpoint, a response with a non-2xx status and body text b
\* yields an error that carries both the status code and b.
C5_NonSuccessCarriesStatusAndBody ==
    (Answered /\ ~IsSuccess(wire.status)) =>
        /\ ~cresult.val.ok
        /\ ErrStatus(ClientOf(endpoint), CallErr) = Some(wire.status)
        /\ ErrText(ClientOf(endpoint), CallErr) = Some(wire.body)

\* C6: no endpoint decodes the response before it has read the body as text:
\* every decode among the call's steps comes after a text read.
C6_TextBeforeDecode ==
    \A i \in 1..Len(events) :
        events[i] = "decode" => \E k \in 1..(i - 1) : events[k] = "text"

\* C7: for every endpoint that decodes its body, a 2xx response whose body does
\* not decode into the expected type yields an error of another variant than
\* the one returned for a transport failure.
C7_DecodeFailureDistinctFromTransport ==
    (Answered /\ IsSuccess(wire.status) /\ Style(endpoint) # "raw"
        /\ Undecodable(endpoint, wire.body)) =>
            /\ ~cresult.val.ok
            /\ CallErr.kind # TransportError(ClientOf(endpoint), ReqwestSend).kind

MalformedOn2xx == Answered /\ IsSuccess(wire.status) /\ wire.body.kind = "raw"

EnvelopeCodeNotOk ==
    /\ Answered
    /\ endpoint \in BuffEndpoints
    /\ IsSuccess(wire.status)
    /\ wire.body.kind = "json"
    /\ wire.body.json.t = "obj"
    /\ HasKey(wire.body.json, "code")
    /\ wire.body.json.o.code.t = "str"
    /\ wire.body.json.o.code.s # "OK"

EnvelopeHasMsg ==
    HasKey(wire.body.json, "msg") /\ wire.body.json.o.msg.t = "str"

\* C9 as stated: a 2xx response whose envelope code is not "OK" returns an
\* ApiError whose message is the envelope's msg.
C9_MessageIsEnvelopeMsg ==
    EnvelopeCodeNotOk =>
        /\ ~cresult.val.ok
        /\ CallErr.kind = "ApiError"
        /\ EnvelopeHasMsg
        /\ CallErr.message = wire.body.json.o.msg.s

\* C9: a 2xx response whose body decodes into the envelope type with a code
\* other than "OK" is never returned as Ok: the call returns an ApiError whose
\* message is the envelope's msg when it has one, and "Unknown API error" when
\* msg is absent or null. A body that does not decode into the envelope type
\* is a JsonParse error whatever its code.
C9_MessageIsMsgOrDefault ==
    EnvelopeCodeNotOk =>
        /\ ~cresult.val.ok
        /\ IF Undecodable(endpoint, wire.body)
           THEN CallErr.kind = "JsonParse"
           ELSE /\ CallErr.kind = "ApiError"
                /\ CallErr.message = IF EnvelopeHasMsg THEN wire.body.json.o.msg.s
                                     ELSE "Unknown API error"

C9_Witness ==
    /\ EnvelopeCodeNotOk
    /\ wire.body = JsonText(JObj([code |-> JStr("FAIL"), msg |-> JStr("bad request")]))
    /\ cresult = Some(Err([kind |-> "ApiError", message |-> "bad request"]))

\* C10: the error returned for a 2xx response with an embedded failure carries
\* both the embedded code and the embedded message.
C10_ErrorCarriesCodeAndMessage ==
    (EnvelopeCodeNotOk /\ EnvelopeHasMsg /\ ~Undecodable(endpoint, wire.body)) =>
        /\ ~cresult.val.ok
        /\ CallErr.kind = "ApiError"
        /\ CallErr.message = wire.body.json.o.msg.s
        /\ "code" \in DOMAIN CallErr
        /\ CallErr["code"] = wire.body.json.o.code.s

----------------------------------------------------------------------------
(* Properties of construction and signing, checked under ClientSpec *)

DMarketBuilt == clients["dmarket"].some /\ clients["dmarket"].val.ok
DMarketRejected == clients["dmarket"].some /\ ~clients["dmarket"].val.ok

\* the private key of the environment is a hex string that encodes n bytes
PrivateKeyDecodesTo(n) ==
    /\ env.DMARKET_PRIVATE_KEY.some
    /\ env.DMARKET_PRIVATE_KEY.val.hex
    /\ env.DMARKET_PRIVATE_KEY.val.len = 2 * n

PrivateKeyHasBytes ==
    /\ env.DMARKET_PRIVATE_KEY.some
    /\ env.DMARKET_PRIVATE_KEY.val.hex
    /\ env.DMARKET_PRIVATE_KEY.val.len % 2 = 0

\* C13: DMarketClient::new returns a client only when the private key is a hex
\* string that decodes to exactly 32 or exactly 64 bytes; with a key of any
\* other decoded length the constructor returns an error, and
\* generate_signature is only ever called on a client built from a 32- or
\* 64-byte key.
C13_ClientOnlyFor32Or64Bytes ==
    /\ DMarketBuilt => (PrivateKeyDecodesTo(32) \/ PrivateKeyDecodesTo(64))
    /\ (clients["dmarket"].some /\ PrivateKeyHasBytes
            /\ ~PrivateKeyDecodesTo(32) /\ ~PrivateKeyDecodesTo(64))
         => DMarketRejected
    /\ signed.some => (PrivateKeyDecodesTo(32) \/ PrivateKeyDecodesTo(64))

\* a key of 33 bytes has passed the length-in-characters test and the hex
\* decoding, and the constructor has rejected it for its decoded length
C13_Witness ==
    /\ PrivateKeyDecodesTo(33)
    /\ env.DMARKET_PUBLIC_KEY = Some(GoodPublicKey)
    /\ clients["dmarket"] =
         Some(Err(ConfigError("Invalid private key length: {}. Expected 32 or 64 bytes")))

\* the credentials client c is constructed from
CredentialsOf(c) ==
    CASE c = "dmarket" -> {env.DMARKET_PRIVATE_KEY, env.DMARKET_PUBLIC_KEY}
      [] c = "csfloat" -> {env.CSFLOAT_API_KEY}
      [] OTHER -> {Some(env.session_cookie), Some(env.csrf_token)}

\* the least length the client's constructor asks of a credential, or the
\* least a non-empty credential has where the constructor asks for none
MinLength(c) == IF c = "dmarket" THEN MinPrivateKeyChars ELSE 1

\* C14: for each of the three clients, the constructor returns no client when
\* a credential is absent, empty or under-length: a client that exists was
\* built from credentials that are all present and of sufficient length.
C14_NoClientFromMissingOrShortCredential ==
    \A c \in ClientNames :
        (clients[c].some /\ clients[c].val.ok) =>
            \A cred \in CredentialsOf(c) : cred.some /\ cred.val.len >= MinLength(c)

\* the message the last generate_signature call signed
SignedBytes == signed.val.result.val.hex.message
SigningClient == clients["dmarket"].val.val

\* C15: the message generate_signature signs is uppercase(method), then the
\* path with "/" put in front exactly when it does not start with "/", then
\* the body, then the timestamp, with nothing in between.
C15_MessageIsMethodPathBodyTimestamp ==
    signed.some =>
        SignedBytes =
            to_uppercase(signed.val.method)
            \o (IF signed.val.path[1] = "/" THEN <<>> ELSE <<"/">>)
            \o signed.val.path \o signed.val.body \o signed.val.timestamp

\* a lower-case method, a path without its leading "/" and a non-empty body
\* have been signed
C15_Witness ==
    /\ signed.some
    /\ signed.val.method = <<"g", "e", "t">>
    /\ signed.val.path = <<"a">>
    /\ signed.val.body = <<"{", "}">>
    /\ signed.val.timestamp = <<"1", "2">>
    /\ SignedBytes = <<"G", "E", "T", "/", "a", "{", "}", "1", "2">>

\* the signature of the last call when one of its arguments is replaced
Resign(client, timestamp, method, path, body) ==
    generate_signature(client, timestamp, method, path, body)

\* the client DMarketClient::new returns for private key k in place of env's
ClientWithKey(k) == DMarketNew([env EXCEPT !.DMARKET_PRIVATE_KEY = Some(k)])

\* C16 as stated: the signature is the same whenever the call is repeated, and
\* replacing any one of method, path, body, timestamp or private key by a
\* different value gives a different signature.
C16_AnyChangedInputChangesSignature ==
    signed.some =>
        LET c == SigningClient
            t == signed.val.timestamp
            m == signed.val.method
            p == signed.val.path
            b == signed.val.body
            r == signed.val.result
        IN  /\ Resign(c, t, m, p, b) = r
            /\ \A t2 \in SignTimestamps \ {t} : Resign(c, t2, m, p, b) # r
            /\ \A m2 \in SignMethods \ {m} : Resign(c, t, m2, p, b) # r
            /\ \A p2 \in SignPaths \ {p} : Resign(c, t, m, p2, b) # r
            /\ \A b2 \in SignBodies \ {b} : Resign(c, t, m, p, b2) # r
            /\ \A k \in PrivateKeys \ {env.DMARKET_PRIVATE_KEY.val} :
                 ClientWithKey(k).ok => Resign(ClientWithKey(k).val, t, m, p, b) # r

\* the path as generate_signature signs it
WithSlash(path) == IF starts_with_slash(path) THEN path ELSE <<"/">> \o path

\* C16: the signature is the same whenever the call is repeated, and it
\* changes when the body or the timestamp changes, when the method changes to
\* one that differs after upper-casing, when the path changes to one that
\* differs after the leading "/" is added, or when the private key changes to
\* one whose first 32 bytes differ.
C16_ChangedCanonicalInputChangesSignature ==
    signed.some =>
        LET c == SigningClient
            t == signed.val.timestamp
            m == signed.val.method
            p == signed.val.path
            b == signed.val.body
            r == signed.val.result
        IN  /\ Resign(c, t, m, p, b) = r
            /\ \A t2 \in SignTimestamps \ {t} : Resign(c, t2, m, p, b) # r
            /\ \A m2 \in SignMethods :
                 to_uppercase(m2) # to_uppercase(m) => Resign(c, t, m2, p, b) # r
            /\ \A p2 \in SignPaths :
                 WithSlash(p2) # WithSlash(p) => Resign(c, t, m, p2, b) # r
            /\ \A b2 \in SignBodies \ {b} : Resign(c, t, m, p, b2) # r
            /\ \A k \in PrivateKeys :
                 (ClientWithKey(k).ok /\ k.head # env.DMARKET_PRIVATE_KEY.val.head)
                    => Resign(ClientWithKey(k).val, t, m, p, b) # r

\* a request has been signed for which another body, another timestamp,
\* another upper-cased method and another key exist in the sample
C16_Witness ==
    /\ signed.some
    /\ signed.val.method = POST
    /\ signed.val.path = <<"/", "a">>
    /\ signed.val.body = <<"1">>
    /\ signed.val.timestamp = <<"1">>
    /\ PrivateKeyDecodesTo(64)

\* C18: a client built from a 64-byte private key signs every request exactly
\* as the client built from the 32-byte key that is the first half of that
\* key, whatever the last 32 bytes are.
C18_OnlySeedPrefixSigns ==
    (signed.some /\ PrivateKeyDecodesTo(64)) =>
        \A k \in PrivateKeys :
            (k.hex /\ k.len = 2 * 32 /\ k.head = env.DMARKET_PRIVATE_KEY.val.head)
                => /\ ClientWithKey(k).ok
                   /\ Resign(ClientWithKey(k).val, signed.val.timestamp,
                             signed.val.method, signed.val.path, signed.val.body)
                        = signed.val.result

\* a 64-byte key whose halves differ has signed a request
C18_Witness ==
    /\ signed.some
    /\ PrivateKeyDecodesTo(64)
    /\ env.DMARKET_PRIVATE_KEY.val.head = "a"
    /\ env.DMARKET_PRIVATE_KEY.val.tail = "b"
    /\ signed.val.result.val.hex.key.head = "a"

----------------------------------------------------------------------------
(* Properties of the request of one endpoint call, checked under Spec *)

CallStarted == endpoint # "none"

\* C11: whatever the outcome of an endpoint call (transport error, non-2xx
\* status, decode error, envelope error, success), the call has sent at most
\* one HTTP request: no failure makes the handler send again.
C11_AtMostOneRequest ==
    /\ Len(sent) <= 1
    /\ (CallDone /\ wire # NoResponse) => Len(sent) = 1

\* a call whose send() failed has returned the transport error after one
\* request
C11_Witness ==
    /\ CallDone
    /\ cresult.val = Err(TransportError(ClientOf(endpoint), ReqwestSend))
    /\ Len(sent) = 1

\* the credentials the handler of endpoint e puts into request headers
HeaderCredentials(e) ==
    CASE ClientOf(e) = "dmarket" -> {env.DMARKET_PUBLIC_KEY.val}
      [] ClientOf(e) = "csfloat" -> {env.CSFLOAT_API_KEY.val}
      [] e = "BuffMarketClient::get_buy_orders" -> {env.session_cookie}
      [] OTHER -> {env.session_cookie, env.csrf_token}

\* the names of the headers that hold a credential or a computed value
HeaderNames(e) ==
    CASE ClientOf(e) = "dmarket" -> {"X_Api_Key", "X_Request_Sign", "X_Sign_Date"}
      [] ClientOf(e) = "csfloat" -> {"Authorization"}
      [] e = "BuffMarketClient::get_buy_orders" -> {"COOKIE"}
      [] OTHER -> {"COOKIE", "x_csrftoken"}

HeaderErrorKinds == {"HeaderError", "InvalidHeaderValue", "InvalidInput"}

\* C12: when a value the handler puts into a header cannot be a header value,
\* the call returns a header or input-validation error and sends nothing; a
\* request that is sent carries every header of its endpoint.
C12_UnencodableHeaderRejectedBeforeSend ==
    CallStarted =>
        /\ (\E cred \in HeaderCredentials(endpoint) : ~cred.clean) =>
              /\ cpc = "done"
              /\ sent = <<>>
              /\ ~cresult.val.ok
              /\ CallErr.kind \in HeaderErrorKinds
        /\ sent # <<>> => DOMAIN sent[1].headers = HeaderNames(endpoint)

\* a DMarket call with a public key that is no header value has returned
\* HeaderError without sending
C12_Witness ==
    /\ endpoint = "TradingHandler::create_sell_offer"
    /\ ~env.DMARKET_PUBLIC_KEY.val.clean
    /\ cpc = "done"
    /\ cresult = Some(Err(HeaderError("HeaderError")))
    /\ sent = <<>>

\* C17: in every DMarket endpoint call that sends a request, the body that
\* was signed is the body sent, the path that was signed (query string
\* included) is the request target after the base URL, the method that was
\* signed is the verb of the request, and the timestamp that was signed is the
\* X-Sign-Date header.
C17_SignedIsSent ==
    (CallStarted /\ ClientOf(endpoint) = "dmarket" /\ sent # <<>>) =>
        /\ signed.some
        /\ sent[1].body = signed.val.body
        /\ sent[1].target = signed.val.path
        /\ sent[1].verb = signed.val.method
        /\ sent[1].headers.X_Sign_Date = signed.val.timestamp

----------------------------------------------------------------------------
(* Properties of the market-items normalizers, checked under Spec *)

\* a market-items call got a 2xx response whose body is a JSON object
MarketItemsAnswered ==
    /\ Answered
    /\ endpoint \in MarketItemsEndpoints
    /\ IsSuccess(wire.status)
    /\ wire.body.kind = "json"
    /\ wire.body.json.t = "obj"

MarketItemsOk == MarketItemsAnswered /\ cresult.val.ok

\* the typed list the normalizer makes of the JSON items l
TypedList(l) == [i \in 1..Len(l) |-> MarketItem(l[i])]

\* what the normalizer of endpoint e returns for the JSON object o
Normalized(e, o) == ResultValue(e, Decode(e, JsonText(JObj(o))).val)

\* C19: the list a market-items normalizer returns is the typed objects list
\* when the response has a non-empty objects field, and the typed items list
\* (empty when there is no items field) otherwise; a response with items and
\* no objects key gives the list that the same response with the list under
\* objects gives.
C19_ObjectsElseItems ==
    MarketItemsOk =>
        LET o == wire.body.json.o
        IN  /\ ("objects" \in DOMAIN o /\ o.objects.a # <<>>)
                => cresult.val.val.objects = TypedList(o.objects.a)
            /\ ~("objects" \in DOMAIN o /\ o.objects.a # <<>>)
                => cresult.val.val.objects =
                     IF "items" \in DOMAIN o THEN TypedList(o.items.a) ELSE <<>>
            /\ ("items" \in DOMAIN o /\ "objects" \notin DOMAIN o)
                => cresult.val.val.objects =
                     Normalized(endpoint, [objects |-> o.items, total |-> o.total]).objects

\* a response with two items under items and no objects key was normalized
\* into a list of two market items
C19_Witness ==
    /\ MarketItemsOk
    /\ endpoint = "ExchangeHandler::get_market_items"
    /\ "objects" \notin DOMAIN wire.body.json.o
    /\ "items" \in DOMAIN wire.body.json.o
    /\ Len(cresult.val.val.objects) = 2
    /\ cresult.val.val.objects[1].item_id = "2"

\* the response has well-formed lists and a total that is an integer, a
\* string, or an object that holds the counter offers
TotalArrives ==
    /\ MarketItemsAnswered
    /\ ListFits(wire.body.json, "objects")
    /\ ListFits(wire.body.json, "items")
    /\ HasKey(wire.body.json, "total")
    /\ \/ wire.body.json.o.total.t \in {"num", "str"}
       \/ /\ wire.body.json.o.total.t = "obj"
          /\ HasKey(wire.body.json.o.total, "offers")

\* the count a total holds, as an integer
CountOf(total) ==
    CASE total.t = "num" -> total.n
      [] total.t = "str" ->
           CHOOSE n \in 0..9 : DecimalString(n) = total.s
      [] OTHER -> total.o.offers.n

\* C20: a market-items response whose total arrives as an integer, as a
\* numeric string or as an object of counters is accepted, and the total of
\* the MarketItemsResponse returned is that count, as an integer or as its
\* decimal string.
C20_EveryTotalFormAccepted ==
    TotalArrives =>
        /\ cresult.val.ok
        /\ cresult.val.val.total
             \in {CountOf(wire.body.json.o.total),
                  DecimalString(CountOf(wire.body.json.o.total))}

----------------------------------------------------------------------------
(* Two calls on the same clients.  Every handler takes &self and keeps what *)
(* it computes in locals of its own future; the executor polls one future  *)
(* at a time and may change to the other at any await.                     *)

ConcurrentEndpoints ==
    {"DMarketClient::get_user_profile", "DMarketClient::get_account_balance",
     "ListingsHandler::get_listing"}

\* the locals of the call being polled
Polled ==
    [cpc |-> cpc, endpoint |-> endpoint, page_num |-> page_num, wire |-> wire,
     captured |-> captured, events |-> events, cresult |-> cresult,
     signed |-> signed, sent |-> sent]

\* the executor turns to the other call
Switch ==
    /\ cpc' = suspended.cpc
    /\ endpoint' = suspended.endpoint
    /\ page_num' = suspended.page_num
    /\ wire' = suspended.wire
    /\ captured' = suspended.captured
    /\ events' = suspended.events
    /\ cresult' = suspended.cresult
    /\ signed' = suspended.signed
    /\ sent' = suspended.sent
    /\ suspended' = Polled
    /\ UNCHANGED <<clientVars, loopVars>>

StartConcurrentCall ==
    /\ cpc = "idle"
    /\ \E e \in ConcurrentEndpoints : IssueRequest(e, 1)
    /\ UNCHANGED <<loopVars, suspended>>

ConcurrentNext ==
    \/ StartConcurrentCall
    \/ SendFails /\ UNCHANGED <<loopVars, suspended>>
    \/ SendCompletes /\ UNCHANGED <<loopVars, suspended>>
    \/ BodyFails /\ UNCHANGED <<loopVars, suspended>>
    \/ TextCompletes /\ UNCHANGED <<loopVars, suspended>>
    \/ JsonCompletes /\ UNCHANGED <<loopVars, suspended>>
    \/ Switch

ConcurrentSpec == Init /\ [][ConcurrentNext]_vars

----------------------------------------------------------------------------
(* Properties of the order of events in get_all_market_listings, checked   *)
(* under FetchAllSpec                                                      *)

Count(seq, x) == Cardinality({i \in 1..Len(seq) : seq[i] = x})

\* C22: the loop is sequential with one delay between pages: a page request
\* is in flight exactly while the loop awaits get_market_listings, so at most
\* one at a time; every request but the first comes directly after one 500 ms
\* sleep, which comes directly after the response to the request before; no
\* sleep comes first, and none comes last when the call has returned.
C22_SequentialWithOneDelay ==
    /\ Count(timeline, "request") - Count(timeline, "response")
         = IF fpc = "call" THEN 1 ELSE 0
    /\ \A i \in 1..Len(timeline) :
        /\ (timeline[i] = "request" /\ i > 1) => timeline[i - 1] = "sleep 500 ms"
        /\ timeline[i] = "sleep 500 ms" => (i > 1 /\ timeline[i - 1] = "response")
    /\ FetchAllDone => timeline[Len(timeline)] = "response"

\* three pages were fetched, with a sleep before the second and the third
C22_Witness ==
    /\ FetchAllDone
    /\ timeline = <<"request", "response", "sleep 500 ms", "request", "response",
                    "sleep 500 ms", "request", "response">>

\* the signals of page response r disagree: an empty page with total_count > 0,
\* items with total_count = 0, or total_page = 0 with total_count > 0
Ambiguous(r) ==
    /\ HasData(r)
    /\ \/ r.data.val.items = <<>> /\ r.data.val.total_count > 0
       \/ r.data.val.items # <<>> /\ r.data.val.total_count = 0
       \/ r.data.val.total_page = 0 /\ r.data.val.total_count > 0

\* C25: when a page response whose end-of-data signals disagree has been
\* processed, a log event has been emitted.
C25_AmbiguousCaseLogged ==
    (\E i \in 1..Len(pages) : Ambiguous(pages[i])) => Count(timeline, "log") > 0

\* the call of get_market_listings for the current page has returned an Err
\* and the loop has ended
PageFailed == fpc = "done" /\ cresult.some /\ ~cresult.val.ok

\* C26: when get_market_listings returns an Err for a page, the call returns
\* that Err, which holds no items, and the failed request is the last one.
C26_PageErrorEndsCall ==
    /\ (fpc = "call" /\ cpc = "done" /\ ~cresult.val.ok) =>
          Len(requests) = Len(pages) + 1
    /\ PageFailed =>
          /\ fresult = Some(Err(cresult.val.err))
          /\ DOMAIN fresult.val = {"ok", "err"}
          /\ Len(requests) = Len(pages) + 1
          /\ ~ENABLED FetchAllNext

\* the request for page 2 failed after page 1 had delivered items
C26_Witness ==
    /\ PageFailed
    /\ Len(pages) = 1
    /\ all_items # <<>>
    /\ requests = <<1, 2>>
    /\ cresult.val.err.kind = "JsonParse"

\* C27: the call never returns MissingData; a page response without data has
\* code "OK", ends the call with Ok of the items collected so far, and no
\* request follows it.
C27_NeverMissingData ==
    /\ fresult.some => (fresult.val.ok \/ fresult.val.err.kind # "MissingData")
    /\ \A i \in 1..Len(pages) :
          ~HasData(pages[i]) =>
              /\ pages[i].code = "OK"
              /\ i = Len(pages)
              /\ Len(requests) = i
              /\ fresult = Some(Ok(all_items))
              /\ all_items = ItemsOfPages(i - 1)

\* page 2 arrived without data after page 1 had delivered two items
C27_Witness ==
    /\ Len(pages) = 2
    /\ ~HasData(pages[2])
    /\ fresult.some
    /\ fresult.val.ok
    /\ Len(fresult.val.val) = 2

\* C28: the k-th request is for page k, and the call does not return before
\* it has asked get_market_listings for page 1.
C28_PagesInOrder ==
    /\ requests = [k \in 1..Len(requests) |-> k]
    /\ fpc \in {"call", "sleep", "done"} => Len(requests) >= 1

\* pages 1, 2 and 3 were requested and the call has returned
C28_Witness ==
    /\ FetchAllDone
    /\ requests = <<1, 2, 3>>

\* C29: when the call returns Ok, the result is the concatenation, in order,
\* of the item lists of all page responses received, those of a non-empty
\* page with total_count = 0 included.
C29_ResultIsConcatenation ==
    FetchAllOk => fresult.val.val = ItemsOfPages(Len(pages))

\* the second page held an item and total_count = 0: the item is in the
\* result and the loop has stopped
C29_Witness ==
    /\ FetchAllOk
    /\ Len(pages) = 2
    /\ HasData(pages[2])
    /\ pages[2].data.val.total_count = 0
    /\ Len(pages[2].data.val.items) = 1
    /\ Len(fresult.val.val) = Len(pages[1].data.val.items) + 1

----------------------------------------------------------------------------
(* Properties of how failures are reported, checked under ClientSpec *)

\* C23: every constructor call that has finished returned Ok or an Err of the
\* client's error type; none ended in a panic.
C23_ConstructorsReturnOkOrErr ==
    \A c \in ClientNames :
        clients[c].some =>
            (clients[c].val.ok \/ "err" \in DOMAIN clients[c].val)

----------------------------------------------------------------------------
(* Properties of the list normalizers, checked under Spec *)

\* a list endpoint was answered 2xx with a JSON object and returned
ListAnswered ==
    /\ Answered
    /\ endpoint \in ListEndpoints
    /\ IsSuccess(wire.status)
    /\ wire.body.kind = "json"
    /\ wire.body.json.t = "obj"

\* JSON object j without the unknown key, at the top level and in every
\* element of its arrays
Stripped(j) ==
    JObj([k \in DOMAIN j.o \ {UnknownKey} |->
            IF j.o[k].t = "arr"
            THEN JArr([i \in 1..Len(j.o[k].a) |->
                         IF j.o[k].a[i].t = "obj"
                         THEN Without(j.o[k].a[i], UnknownKey)
                         ELSE j.o[k].a[i]])
            ELSE j.o[k]])

HasUnknownKeys(j) == Stripped(j) # j

\* C24: when the response to a list endpoint holds keys that nobody names, at
\* the top level or in its elements, and the same response without them
\* is normalized successfully, the call returns Ok with the same value.
C24_UnknownKeysIgnored ==
    (ListAnswered /\ HasUnknownKeys(wire.body.json)) =>
        (AfterText(endpoint, wire.status, JsonText(Stripped(wire.body.json))).result.ok
            => cresult.val =
                 AfterText(endpoint, wire.status,
                           JsonText(Stripped(wire.body.json))).result)

\* a market-items response with an unknown key at the top level and in two of
\* its three items was normalized into three market items
C24_Witness ==
    /\ ListAnswered
    /\ endpoint = "ExchangeHandler::search_market_items"
    /\ UnknownKey \in DOMAIN wire.body.json.o
    /\ HasKey(wire.body.json, "objects")
    /\ Len(wire.body.json.o.objects.a) = 3
    /\ UnknownKey \in DOMAIN wire.body.json.o.objects.a[1].o
    /\ cresult.val.ok
    /\ Len(cresult.val.val.objects) = 3
    /\ cresult.val.val.objects[3].price.amount = "605"

\* the arrays the response type of endpoint e decodes
ListKeys(e) == IF e \in MarketItemsEndpoints THEN {"objects", "items"} ELSE {ListKey(e)}

\* the array of JSON object o the normalizer of endpoint e makes its list of
SourceArray(e, o) ==
    IF e \in MarketItemsEndpoints
    THEN IF "objects" \in DOMAIN o /\ o.objects.a # <<>> THEN o.objects.a
         ELSE IF "items" \in DOMAIN o THEN o.items.a ELSE <<>>
    ELSE IF ListKey(e) \in DOMAIN o THEN o[ListKey(e)].a ELSE <<>>

\* element j has no value under a required key (for a market item: itemId,
\* title, gameId, classId, price, and USD in price)
LacksRequired(e, j) ==
    \/ \E i \in 1..Len(ElementSchema(e)) : ~HasKey(j, ElementSchema(e)[i][1])
    \/ e \in MarketItemsEndpoints /\ HasKey(j, "price") /\ ~HasKey(j.o.price, "USD")

\* the list in the value a list endpoint returns
ResultList(e, v) == IF e \in GamesEndpoints THEN v ELSE v.objects

\* C30: a list normalizer that returns Ok returns one typed element per
\* element of the source array, in its order; when an element of a list of
\* the response lacks a required field, the call returns the JSON error and
\* no list.
C30_AllOrNothingInOrder ==
    ListAnswered =>
        /\ cresult.val.ok =>
             /\ Len(ResultList(endpoint, cresult.val.val))
                   = Len(SourceArray(endpoint, wire.body.json.o))
             /\ \A i \in 1..Len(SourceArray(endpoint, wire.body.json.o)) :
                   ResultList(endpoint, cresult.val.val)[i]
                     = TypedElement(endpoint, SourceArray(endpoint, wire.body.json.o)[i])
        /\ (\E k \in ListKeys(endpoint) \cap DOMAIN wire.body.json.o :
               /\ wire.body.json.o[k].t = "arr"
               /\ \E i \in 1..Len(wire.body.json.o[k].a) :
                     LacksRequired(endpoint, wire.body.json.o[k].a[i]))
             => cresult.val = Err(JsonErrorOf("dmarket", DataDiag))

\* an inventory of three items whose second has no classId gave the JSON
\* error
C30_Witness ==
    /\ ListAnswered
    /\ endpoint = "InventoryHandler::get_inventory"
    /\ HasKey(wire.body.json, "items")
    /\ Len(wire.body.json.o.items.a) = 3
    /\ ElementFits(endpoint, wire.body.json.o.items.a[1])
    /\ ~HasKey(wire.body.json.o.items.a[2], "classId")
    /\ ElementFits(endpoint, wire.body.json.o.items.a[3])
    /\ cresult.val = Err(JsonErrorOf("dmarket", DataDiag))

----------------------------------------------------------------------------
(* Properties of concurrent calls, checked under ConcurrentSpec *)

\* the clients as their constructors returned them
AsConstructed == [n \in ClientNames |-> Some(New(n, env))]

\* what the call with locals c signed and sent is what its handler makes of
\* the call's own query and timestamp and the clients as constructed
OwnRequest(c) ==
    \E query \in Queries, timestamp \in Timestamps :
        /\ c.signed = BuildRequest(AsConstructed, c.endpoint, query, timestamp).signed
        /\ IF BuildRequest(AsConstructed, c.endpoint, query, timestamp).result.ok
           THEN c.sent =
                  <<BuildRequest(AsConstructed, c.endpoint, query, timestamp).result.val>>
           ELSE /\ c.sent = <<>>
                /\ c.cresult =
                     Some(Err(BuildRequest(AsConstructed, c.endpoint, query,
                                           timestamp).result.err))

\* what the handler returns for the response c.wire to its own request
FromOwnResponse(c) ==
    CASE NextAwait(c.endpoint, c.wire.status) = "none" ->
             BuffErrorForStatus(c.wire.status)
      [] NextAwait(c.endpoint, c.wire.status) = "json" ->
             AfterJson(c.endpoint, c.wire.body)
      [] OTHER -> AfterText(c.endpoint, c.wire.status, c.wire.body).result

\* the result of the finished call with locals c is a transport failure of
\* its own request or what its handler makes of its own response
OwnOutcome(c) ==
    (c.cpc = "done" /\ c.sent # <<>>) =>
        IF c.wire = NoResponse
        THEN c.cresult = Some(Err(TransportError(ClientOf(c.endpoint), ReqwestSend)))
        ELSE \/ c.cresult = Some(Err(TransportError(ClientOf(c.endpoint), ReqwestBody)))
             \/ c.cresult = Some(FromOwnResponse(c))

\* C21: while two calls on the same clients run interleaved, the clients'
\* credential and signing fields stay as constructed, and what each call
\* signed, sent and returned is determined by its own arguments, its own
\* timestamp and the response to its own request.
C21_CallsShareNoMutableState ==
    /\ clients = AsConstructed
    /\ cpc # "idle" => (OwnRequest(Polled) /\ OwnOutcome(Polled))
    /\ suspended.cpc # "idle" => (OwnRequest(suspended) /\ OwnOutcome(suspended))

\* two signed DMarket calls with different timestamps are in flight at once:
\* each has sent its request and holds the response to it, a 200 and a 404,
\* and neither has read its body yet
C21_Witness ==
    /\ cpc = "text"
    /\ suspended.cpc = "text"
    /\ endpoint = "DMarketClient::get_account_balance"
    /\ suspended.endpoint = "DMarketClient::get_user_profile"
    /\ signed.val.timestamp # suspended.signed.val.timestamp
    /\ sent # suspended.sent
    /\ wire.status = 200
    /\ suspended.wire.status = 404
    /\ wire.body # suspended.wire.body

====
